---------------------------- MODULE Spec2Model ----------------------------
(***************************************************************************)
(* A model of the chess coach: the BoardState session (board_state.py),    *)
(* the engine orchestrator (engine.py), and the command loop (main.py).    *)
(* The rules collaborator (the chess library the code calls) is modelled   *)
(* by what its calls do on an 8x8 board: squares are 0..63, a1 = 0,        *)
(* h1 = 7, a8 = 56, h8 = 63, as in the library.                            *)
(***************************************************************************)
EXTENDS Integers, Sequences, FiniteSets, TLC

VARIABLES
    board,                 \* BoardState.board: the library's board, with its move stack
    initial_fen,           \* BoardState.initial_fen
    move_history,          \* BoardState.move_history: the labels of the moves played
    pc,                    \* where main() stands: "start", "failed", "input", "continue",
                           \* "finally", "done" ("api", "engine": a part called on its own)
    engine,                \* EngineAnalysis.engine: "none", "running" or "stopped"
    conversation_history,  \* Coach.conversation_history: the roles of its messages
    info,                  \* the principal variation the engine is about to report
    last,                  \* the last call or command: its input and what it returned
    trail                  \* the call before the last one: its name and its exception

vars == <<board, initial_fen, move_history, pc, engine, conversation_history,
          info, last, trail>>

(***************************************************************************)
(* Bounds of the model.                                                    *)
(***************************************************************************)
\* The number of moves played on the board at most.
MaxPlies == 2

\* The number of exchanges the coach's conversation holds at most.
MaxExchanges == 1

\* The length of a principal variation the engine reports at most.
MaxPv == 6

(***************************************************************************)
(* Squares, files, ranks and pieces of the rules collaborator.             *)
(***************************************************************************)
SQUARES == 0 .. 63

FILE_NAMES == <<"a", "b", "c", "d", "e", "f", "g", "h">>

RANK_NAMES == <<"1", "2", "3", "4", "5", "6", "7", "8">>

square_file(sq) == sq % 8

square_rank(sq) == sq \div 8

square(f, r) == r * 8 + f

square_name(sq) == FILE_NAMES[square_file(sq) + 1] \o RANK_NAMES[square_rank(sq) + 1]

WHITE == TRUE

BLACK == FALSE

None == [none |-> TRUE]

Empty == "."

WhiteSymbols == {"P", "N", "B", "R", "Q", "K"}

BlackSymbols == {"p", "n", "b", "r", "q", "k"}

PIECE_TYPES == {"p", "n", "b", "r", "q", "k"}

\* chess.Piece.symbol(): upper case for White, lower case for Black.
Symbol(pt, color) ==
    IF color = BLACK THEN pt
    ELSE CASE pt = "p" -> "P" [] pt = "n" -> "N" [] pt = "b" -> "B"
           [] pt = "r" -> "R" [] pt = "q" -> "Q" [] pt = "k" -> "K"

\* The piece type of a symbol ("" for an empty square).
TypeOfSymbol(sym) ==
    CASE sym \in {"P", "p"} -> "p" [] sym \in {"N", "n"} -> "n"
      [] sym \in {"B", "b"} -> "b" [] sym \in {"R", "r"} -> "r"
      [] sym \in {"Q", "q"} -> "q" [] sym \in {"K", "k"} -> "k"
      [] OTHER -> ""

Abs(n) == IF n < 0 THEN -n ELSE n

Sign(n) == IF n < 0 THEN -1 ELSE IF n > 0 THEN 1 ELSE 0

Max(a, b) == IF a > b THEN a ELSE b

SetMax(S) == CHOOSE x \in S : \A y \in S : y <= x

SetMin(S) == CHOOSE x \in S : \A y \in S : x <= y

Last(s) == s[Len(s)]

\* The element of a set of one element: The({F(x) : x \in {e}}) is F(e), with
\* e worked out once.
The(S) == CHOOSE x \in S : TRUE

Front(s) == SubSeq(s, 1, Len(s) - 1)

piece_type_at(b, sq) == TypeOfSymbol(b.pieces[sq])

OccupiedCo(b, color) ==
    {sq \in SQUARES : b.pieces[sq] \in (IF color = WHITE THEN WhiteSymbols ELSE BlackSymbols)}

IsColor(b, sq, color) ==
    b.pieces[sq] \in (IF color = WHITE THEN WhiteSymbols ELSE BlackSymbols)

\* board.pieces(piece_type, color): the squares holding that piece.
pieces(b, pt, color) == {sq \in SQUARES : b.pieces[sq] = Symbol(pt, color)}

\* board.king(color): the king's square, or None.
king(b, color) ==
    LET ks == pieces(b, "k", color)
    IN IF ks = {} THEN None ELSE [sq |-> SetMax(ks)]

(***************************************************************************)
(* Attacks.                                                                *)
(***************************************************************************)
\* Every square strictly between two aligned squares is empty.
BetweenEmpty(ps, s, t) ==
    LET df == square_file(t) - square_file(s)
        dr == square_rank(t) - square_rank(s)
        n  == Max(Abs(df), Abs(dr))
        step == Sign(dr) * 8 + Sign(df)
    IN \A k \in 1 .. (n - 1) : ps[s + k * step] = Empty

\* The piece standing on s attacks t (board.attacks(s) contains t).
AttacksSquare(ps, s, t) ==
    LET df == square_file(t) - square_file(s)
        dr == square_rank(t) - square_rank(s)
        sym == ps[s]
        pt == TypeOfSymbol(sym)
    IN /\ s # t
       /\ CASE pt = "n" -> {Abs(df), Abs(dr)} = {1, 2}
            [] pt = "k" -> Max(Abs(df), Abs(dr)) = 1
            [] pt = "p" -> Abs(df) = 1 /\ dr = (IF sym = "P" THEN 1 ELSE -1)
            [] pt = "b" -> Abs(df) = Abs(dr) /\ BetweenEmpty(ps, s, t)
            [] pt = "r" -> (df = 0 \/ dr = 0) /\ BetweenEmpty(ps, s, t)
            [] pt = "q" -> (df = 0 \/ dr = 0 \/ Abs(df) = Abs(dr)) /\ BetweenEmpty(ps, s, t)
            [] OTHER -> FALSE

attacks(b, sq) == {t \in SQUARES : AttacksSquare(b.pieces, sq, t)}

attackers(b, color, sq) ==
    {s \in SQUARES : IsColor(b, s, color) /\ AttacksSquare(b.pieces, s, sq)}

is_attacked_by(b, color, sq) ==
    \E s \in SQUARES : IsColor(b, s, color) /\ AttacksSquare(b.pieces, s, sq)

\* The king of a colour stands attacked.
KingAttacked(b, color) ==
    \E k \in {king(b, color)} : k # None /\ is_attacked_by(b, ~color, k.sq)

is_check(b) == KingAttacked(b, b.turn)


(***************************************************************************)
(* Moves.  A move is an origin, a destination and an optional promotion    *)
(* piece type ("" for none); the null move is Move(0, 0), which is falsy.  *)
(***************************************************************************)
Move(f, t, p) == [from_square |-> f, to_square |-> t, promotion |-> p]

NullMove == Move(0, 0, "")

\* bool(move): False only for the null move.
MoveBool(m) == m.from_square # 0 \/ m.to_square # 0 \/ m.promotion # ""

\* move.uci(): the coordinate label.
uci(m) ==
    IF ~MoveBool(m) THEN "0000"
    ELSE square_name(m.from_square) \o square_name(m.to_square) \o m.promotion

BackRank(color) == IF color = WHITE THEN 0 ELSE 7

LastRank(color) == IF color = WHITE THEN 7 ELSE 0

\* Board.clean_castling_rights(): rights whose rook stands on its corner and
\* whose king stands on its e-file square.
clean_castling_rights(b) ==
    LET ok(color) ==
            IF b.pieces[square(4, BackRank(color))] # Symbol("k", color) THEN {}
            ELSE {sq \in b.castling_rights \cap {square(0, BackRank(color)), square(7, BackRank(color))} :
                     b.pieces[sq] = Symbol("r", color)}
    IN ok(WHITE) \cup ok(BLACK)

has_castling_rights(b, color) ==
    \E sq \in clean_castling_rights(b) : square_rank(sq) = BackRank(color)

\* Board.generate_castling_moves(): the king's two-square moves that the
\* rights, the empty path and the unattacked king squares allow.
CastlingMoves(b) ==
    LET r == BackRank(b.turn)
        k == square(4, r)
        can(rook) ==
            LET a_side == rook < k
                kpath == IF a_side THEN {square(3, r), square(2, r)} ELSE {square(5, r), square(6, r)}
            IN /\ \A sq \in SQUARES :
                    (square_rank(sq) = r /\ ((sq > k /\ sq < rook) \/ (sq < k /\ sq > rook)))
                        => b.pieces[sq] = Empty
               /\ \A sq \in kpath \cup {k} : ~is_attacked_by(b, ~b.turn, sq)
    IN {Move(k, IF rook < k THEN square(2, r) ELSE square(6, r), "") :
            rook \in {x \in clean_castling_rights(b) : square_rank(x) = r /\ can(x)}}

\* Board.is_castling(move).
is_castling(b, m) ==
    /\ piece_type_at(b, m.from_square) = "k"
    /\ \/ Abs(square_file(m.from_square) - square_file(m.to_square)) > 1
       \/ b.pieces[m.to_square] = Symbol("r", b.turn)

\* Board.is_en_passant(move).
is_en_passant(b, m) ==
    /\ m.to_square \in b.ep_square
    /\ piece_type_at(b, m.from_square) = "p"
    /\ Abs(m.to_square - m.from_square) \in {7, 9}
    /\ b.pieces[m.to_square] = Empty

\* Board.is_capture(move).
is_capture(b, m) ==
    \/ IsColor(b, m.from_square, ~b.turn)
    \/ IsColor(b, m.to_square, ~b.turn)
    \/ is_en_passant(b, m)

\* Board.is_zeroing(move): a pawn move or a capture.
is_zeroing(b, m) ==
    \/ piece_type_at(b, m.from_square) = "p"
    \/ piece_type_at(b, m.to_square) = "p"
    \/ IsColor(b, m.from_square, ~b.turn)
    \/ IsColor(b, m.to_square, ~b.turn)

\* Board._to_chess960: the king's two-square move is applied as king-to-rook.
ToChess960(b, m) ==
    LET r == square_rank(m.from_square)
    IN IF /\ m.from_square \in {4, 60}
          /\ piece_type_at(b, m.from_square) = "k"
          /\ m.to_square = square(6, r)
          /\ piece_type_at(b, m.to_square) # "r"
       THEN Move(m.from_square, square(7, r), m.promotion)
       ELSE IF /\ m.from_square \in {4, 60}
               /\ piece_type_at(b, m.from_square) = "k"
               /\ m.to_square = square(2, r)
               /\ piece_type_at(b, m.to_square) # "r"
       THEN Move(m.from_square, square(0, r), m.promotion)
       ELSE m

\* Board._from_chess960: the move as it is kept on the move stack.
FromChess960(b, m) ==
    LET r == square_rank(m.from_square)
    IN IF /\ m.promotion = ""
          /\ m.from_square \in {4, 60}
          /\ piece_type_at(b, m.from_square) = "k"
          /\ m.to_square \in {square(7, r), square(0, r)}
       THEN Move(m.from_square, IF m.to_square = square(7, r) THEN square(6, r) ELSE square(2, r), "")
       ELSE m

\* _BoardState: what push() remembers and pop() restores.
BoardSnapshot(b) ==
    [pieces |-> b.pieces, turn |-> b.turn, castling_rights |-> b.castling_rights,
     ep_square |-> b.ep_square, halfmove_clock |-> b.halfmove_clock,
     fullmove_number |-> b.fullmove_number]

\* Board.push(move) after the move is put in the library's internal form.
PushMove(b, m) ==
    LET base == [b EXCEPT !.move_stack = Append(b.move_stack, FromChess960(b, m)),
                          !.stack = Append(b.stack, BoardSnapshot(b)),
                          !.ep_square = {},
                          !.halfmove_clock = b.halfmove_clock + 1,
                          !.fullmove_number = IF b.turn = BLACK THEN b.fullmove_number + 1
                                              ELSE b.fullmove_number,
                          !.turn = ~b.turn]
    IN IF ~MoveBool(m) THEN [base EXCEPT !.castling_rights = clean_castling_rights(b)]
       ELSE
       LET pt == piece_type_at(b, m.from_square)
           captured == piece_type_at(b, m.to_square)
           diff == m.to_square - m.from_square
           cr0 == clean_castling_rights(b) \ {m.from_square, m.to_square}
           rankOf(r) == {sq \in SQUARES : square_rank(sq) = r}
           cr1 == IF pt = "k" THEN cr0 \ rankOf(BackRank(b.turn))
                  ELSE IF captured = "k" /\ square_rank(m.to_square) = LastRank(b.turn)
                       THEN cr0 \ rankOf(LastRank(b.turn))
                  ELSE cr0
           ep1 == IF pt = "p" /\ diff = 16 /\ square_rank(m.from_square) = 1 THEN {m.from_square + 8}
                  ELSE IF pt = "p" /\ diff = -16 /\ square_rank(m.from_square) = 6 THEN {m.from_square - 8}
                  ELSE {}
           epCapture == /\ pt = "p"
                        /\ ep1 = {}
                        /\ m.to_square \in b.ep_square
                        /\ Abs(diff) \in {7, 9}
                        /\ captured = ""
           down == IF b.turn = WHITE THEN -8 ELSE 8
           pt2 == IF m.promotion # "" THEN m.promotion ELSE pt
           castling == pt2 = "k" /\ IsColor(b, m.to_square, b.turn)
           a_side == square_file(m.to_square) < square_file(m.from_square)
           r == BackRank(b.turn)
           kingTo == IF a_side THEN square(2, r) ELSE square(6, r)
           rookTo == IF a_side THEN square(3, r) ELSE square(5, r)
           ps1 == [sq \in SQUARES |->
                      IF castling
                      THEN (IF sq = kingTo THEN Symbol("k", b.turn)
                            ELSE IF sq = rookTo THEN Symbol("r", b.turn)
                            ELSE IF sq \in {m.from_square, m.to_square} THEN Empty
                            ELSE b.pieces[sq])
                      ELSE (IF sq = m.to_square THEN Symbol(pt2, b.turn)
                            ELSE IF sq = m.from_square THEN Empty
                            ELSE IF epCapture /\ sq = m.to_square + down THEN Empty
                            ELSE b.pieces[sq])]
       IN [base EXCEPT !.pieces = ps1,
                       !.castling_rights = cr1,
                       !.ep_square = ep1,
                       !.halfmove_clock = IF is_zeroing(b, m) THEN 0 ELSE b.halfmove_clock + 1]

\* Board.push(move) for a null move or a move whose origin holds a piece.
push(b, move) == The({PushMove(b, m) : m \in {ToChess960(b, move)}})

\* Board.pop(): drops the last move and restores the remembered state.
pop(b) ==
    LET s == Last(b.stack)
    IN [pieces |-> s.pieces, turn |-> s.turn, castling_rights |-> s.castling_rights,
        ep_square |-> s.ep_square, halfmove_clock |-> s.halfmove_clock,
        fullmove_number |-> s.fullmove_number,
        move_stack |-> Front(b.move_stack), stack |-> Front(b.stack)]

(***************************************************************************)
(* Legality.                                                               *)
(***************************************************************************)
\* Board.is_pseudo_legal(move).
is_pseudo_legal(b, m) ==
    LET pt == piece_type_at(b, m.from_square)
        fr == square_rank(m.from_square)
        tr == square_rank(m.to_square)
        df == square_file(m.to_square) - square_file(m.from_square)
        fwd == IF b.turn = WHITE THEN 8 ELSE -8
        promoOk == (m.promotion # "") = (tr = LastRank(b.turn))
    IN /\ MoveBool(m)
       /\ IsColor(b, m.from_square, b.turn)
       /\ m.promotion # "" => (pt = "p" /\ tr = LastRank(b.turn) /\ m.promotion \in {"q", "r", "b", "n"})
       /\ \/ pt = "k" /\ m \in CastlingMoves(b)
          \/ /\ ~IsColor(b, m.to_square, b.turn)
             /\ IF pt = "p"
                THEN /\ promoOk
                     /\ \/ /\ AttacksSquare(b.pieces, m.from_square, m.to_square)
                           /\ IsColor(b, m.to_square, ~b.turn)
                        \/ /\ m.to_square = m.from_square + fwd
                           /\ b.pieces[m.to_square] = Empty
                        \/ /\ m.to_square = m.from_square + 2 * fwd
                           /\ fr = (IF b.turn = WHITE THEN 1 ELSE 6)
                           /\ b.pieces[m.from_square + fwd] = Empty
                           /\ b.pieces[m.to_square] = Empty
                        \/ /\ m.to_square \in b.ep_square
                           /\ m.to_square # 0
                           /\ b.pieces[m.to_square] = Empty
                           /\ AttacksSquare(b.pieces, m.from_square, m.to_square)
                           /\ fr = (IF b.turn = WHITE THEN 4 ELSE 3)
                ELSE AttacksSquare(b.pieces, m.from_square, m.to_square)

\* Board.is_into_check(move): the mover's king is attacked after the move.
is_into_check(b, m) == \E after \in {push(b, m)} : KingAttacked(after, b.turn)

\* Board.is_legal(move).
is_legal(b, m) == is_pseudo_legal(b, m) /\ ~is_into_check(b, m)

\* The promotions a move from f to t can carry.
PromotionsFor(b, f, t) ==
    IF piece_type_at(b, f) = "p" /\ square_rank(t) = LastRank(b.turn)
    THEN {"q", "r", "b", "n"} ELSE {""}

\* Board.generate_legal_moves(from_mask, to_mask); a castling move is matched
\* against to_mask by its rook's square, as the library does.
generate_legal_moves(b, from_mask, to_mask) ==
    LET froms == {f \in from_mask : IsColor(b, f, b.turn)}
        Probe(f, t) == Move(f, t, CHOOSE p \in PromotionsFor(b, f, t) : TRUE)
        pairs == {ft \in froms \X to_mask : is_pseudo_legal(b, Probe(ft[1], ft[2]))}
        cand == UNION {{Move(ft[1], ft[2], p) : p \in PromotionsFor(b, ft[1], ft[2])} : ft \in pairs}
    IN {m \in cand : is_legal(b, m) /\ (is_castling(b, m) => ToChess960(b, m).to_square \in to_mask)}

\* board.legal_moves
legal_moves(b) == generate_legal_moves(b, SQUARES, SQUARES)


(***************************************************************************)
(* Algebraic labels.                                                       *)
(***************************************************************************)
UpperOf(pt) == IF pt = "p" THEN "" ELSE Symbol(pt, WHITE)

\* san() asserts that the origin of a move that is not null holds a piece.
SanRaises(b, m) == MoveBool(m) /\ b.pieces[m.from_square] = Empty

\* The origins of the other legal moves of the same piece type to the same
\* destination: what a label has to be told apart from.
Others(b, m) ==
    IF piece_type_at(b, m.from_square) = "p" THEN {}
    ELSE {c.from_square :
             c \in generate_legal_moves(b,
                       pieces(b, piece_type_at(b, m.from_square), b.turn) \ {m.from_square},
                       {m.to_square})}

\* The label of a move that is neither null nor castling.
PieceMoveLabel(m, pt, capture, others) ==
    LET row == \E o \in others : square_file(o) = square_file(m.from_square)
        column == (\E o \in others : square_rank(o) = square_rank(m.from_square)) \/ ~row
        disamb == IF pt = "p"
                  THEN (IF capture THEN FILE_NAMES[square_file(m.from_square) + 1] ELSE "")
                  ELSE IF others = {} THEN ""
                  ELSE (IF column THEN FILE_NAMES[square_file(m.from_square) + 1] ELSE "")
                       \o (IF row THEN RANK_NAMES[square_rank(m.from_square) + 1] ELSE "")
    IN UpperOf(pt) \o disamb \o (IF capture THEN "x" ELSE "") \o square_name(m.to_square)
       \o (IF m.promotion # "" THEN "=" \o UpperOf(m.promotion) ELSE "")

\* Board._algebraic_without_suffix(move).
AlgebraicWithoutSuffix(b, m) ==
    IF ~MoveBool(m) THEN "--"
    ELSE IF is_castling(b, m)
    THEN (IF square_file(m.to_square) < square_file(m.from_square) THEN "O-O-O" ELSE "O-O")
    ELSE The({PieceMoveLabel(m, pt, capture, others) :
                 pt \in {piece_type_at(b, m.from_square)},
                 capture \in {is_capture(b, m)},
                 others \in {Others(b, m)}})

\* The check ("+") or checkmate ("#") mark of a move, from the position after it.
Suffix(m, after) ==
    IF ~MoveBool(m) \/ ~is_check(after) THEN ""
    ELSE IF legal_moves(after) = {} THEN "#"
    ELSE "+"

\* board.san(move): the label with its check or checkmate suffix, computed by
\* pushing the move and popping it again; the board is left as it was.
san(b, m) == The({AlgebraicWithoutSuffix(b, m) \o Suffix(m, after) : after \in {push(b, m)}})

(***************************************************************************)
(* Input text.  A move text is modelled by what the library's pattern for  *)
(* algebraic notation extracts from it:                                    *)
(*   kind "san":     piece type (of the piece letter, "" without one),     *)
(*                   origin file, origin rank, destination, promotion;     *)
(*                   plain = the text is exactly the squares and a         *)
(*                   lower-case promotion letter ("g1f3", "e7e8q")         *)
(*   kind "castle":  "O-O" (a_side FALSE) or "O-O-O" (a_side TRUE)         *)
(*   kind "null":    "--" or "0000"                                        *)
(*   kind "invalid": any other text ("hello", "")                          *)
(***************************************************************************)
SanText(piece, ffile, frank, to, promo, plain) ==
    [kind |-> "san", piece |-> piece, from_file |-> ffile, from_rank |-> frank,
     to_square |-> to, promotion |-> promo, plain |-> plain]

CastleText(a_side) == [kind |-> "castle", a_side |-> a_side]

NullText(literal) == [kind |-> "null", literal |-> literal]

InvalidText == [kind |-> "invalid"]

Ok(m) == [ok |-> TRUE, move |-> m]

Raise(e) == [ok |-> FALSE, exc |-> e]

\* Board.find_move(from_square, to_square, promotion).
find_move(b, f, t, promo) ==
    LET p == IF promo = "" /\ piece_type_at(b, f) = "p" /\ square_rank(t) \in {0, 7}
             THEN "q" ELSE promo
    IN The({IF is_legal(b, m) THEN Ok(m) ELSE Raise("IllegalMoveError") :
               m \in {FromChess960(b, Move(f, t, p))}})

\* parse_san: the squares the text's origin file and rank allow.
BySquare(text) ==
    {sq \in SQUARES :
        /\ \A f \in text.from_file : square_file(sq) = f
        /\ \A r \in text.from_rank : square_rank(sq) = r}

\* parse_san: the origins the text allows (its piece type, or a pawn on the
\* destination's file when the text names no origin file).
FromMask(b, text) ==
    IF text.piece # ""
    THEN BySquare(text) \cap pieces(b, text.piece, b.turn)
    ELSE {sq \in BySquare(text) :
             /\ piece_type_at(b, sq) = "p"
             /\ text.from_file = {} => square_file(sq) = square_file(text.to_square)}

\* parse_san: the one matching legal move, or the error for none or several.
Match(matched) ==
    IF Cardinality(matched) > 1 THEN Raise("AmbiguousMoveError")
    ELSE IF matched = {} THEN Raise("IllegalMoveError")
    ELSE Ok(CHOOSE m \in matched : TRUE)

\* Board.parse_san(san).
parse_san(b, text) ==
    CASE text.kind = "castle" ->
           The({IF cs = {} THEN Raise("IllegalMoveError") ELSE Ok(CHOOSE m \in cs : TRUE) :
                   cs \in {{m \in CastlingMoves(b) :
                              (square_file(m.to_square) < square_file(m.from_square)) = text.a_side}}})
      [] text.kind = "null" -> Ok(NullMove)
      [] text.kind = "invalid" -> Raise("InvalidMoveError")
      [] text.kind = "san" ->
           IF text.piece = "" /\ text.from_file # {} /\ text.from_rank # {}
           THEN The({IF ~r.ok THEN r
                     ELSE IF r.move.promotion = text.promotion THEN r
                     ELSE Raise("IllegalMoveError") :
                        r \in {find_move(b, CHOOSE sq \in BySquare(text) : TRUE,
                                         text.to_square, text.promotion)}})
           ELSE The({Match({m \in legal : m.promotion = text.promotion}) :
                        legal \in {generate_legal_moves(b, FromMask(b, text),
                                        {text.to_square} \ OccupiedCo(b, b.turn))}})

\* chess.Move.from_uci(uci).
from_uci(text) ==
    CASE text.kind = "null" -> IF text.literal = "0000" THEN Ok(NullMove) ELSE Raise("InvalidMoveError")
      [] text.kind = "san" ->
           IF text.plain /\ text.piece = "" /\ text.from_file # {} /\ text.from_rank # {}
           THEN LET f == square(CHOOSE x \in text.from_file : TRUE, CHOOSE y \in text.from_rank : TRUE)
                IN IF f = text.to_square THEN Raise("InvalidMoveError")
                   ELSE Ok(Move(f, text.to_square, text.promotion))
           ELSE Raise("InvalidMoveError")
      [] OTHER -> Raise("InvalidMoveError")


(***************************************************************************)
(* Position records.  A record's text is modelled by its six parts: the    *)
(* placement rows (rank 8 first, each a sequence of piece symbols and run  *)
(* digits), the side to move, the castling flags, the en-passant field,    *)
(* and the two counters.  The empty text has no parts.                     *)
(***************************************************************************)
Fen(rows, turn, castling, ep, halfmove, fullmove) ==
    [rows |-> rows, turn |-> turn, castling |-> castling, ep |-> ep,
     halfmove |-> halfmove, fullmove |-> fullmove]

EmptyFenText == [empty |-> TRUE]

Digits == {"1", "2", "3", "4", "5", "6", "7", "8"}

DigitValue(d) == CHOOSE n \in 1 .. 8 : RANK_NAMES[n] = d

RECURSIVE RowWidth(_)
RowWidth(row) ==
    IF row = <<>> THEN 0
    ELSE (IF Head(row) \in Digits THEN DigitValue(Head(row)) ELSE 1) + RowWidth(Tail(row))

RECURSIVE ExpandRow(_)
ExpandRow(row) ==
    IF row = <<>> THEN <<>>
    ELSE (IF Head(row) \in Digits THEN [i \in 1 .. DigitValue(Head(row)) |-> Empty] ELSE <<Head(row)>>)
         \o ExpandRow(Tail(row))

\* BaseBoard._set_board_fen's checks of one row.
RowOk(row) ==
    /\ \A i \in 1 .. Len(row) : row[i] \in Digits \cup WhiteSymbols \cup BlackSymbols
    /\ \A i \in 1 .. (Len(row) - 1) : ~(row[i] \in Digits /\ row[i + 1] \in Digits)
    /\ RowWidth(row) = 8

SquaresNamed(name) == {sq \in SQUARES : square_name(sq) = name}

\* Board.set_fen raises ValueError on these.
FenRaises(fen) ==
    \/ fen = EmptyFenText
    \/ Len(fen.rows) # 8
    \/ \E i \in 1 .. Len(fen.rows) : ~RowOk(fen.rows[i])
    \/ fen.turn \notin {"w", "b"}
    \/ ~(fen.castling \subseteq {"K", "Q", "k", "q"})
    \/ (fen.ep # "-" /\ SquaresNamed(fen.ep) = {})
    \/ fen.halfmove < 0
    \/ fen.fullmove < 0

\* Board._set_castling_fen: the rook squares the flags select.
CastlingFromFen(ps, flags) ==
    LET b0 == [pieces |-> ps]
        one(flag) ==
            LET color == flag \in {"K", "Q"}
                r == BackRank(color)
                rooks == {sq \in pieces(b0, "r", color) : square_rank(sq) = r}
                k == king(b0, color)
            IN IF flag \in {"Q", "q"}
               THEN (IF k # None /\ (IF rooks = {} THEN -1 ELSE SetMin(rooks)) < k.sq
                     THEN (IF rooks = {} THEN {} ELSE {SetMin(rooks)})
                     ELSE {square(0, r)})
               ELSE (IF k # None /\ rooks # {} /\ k.sq < SetMax(rooks)
                     THEN {SetMax(rooks)}
                     ELSE {square(7, r)})
    IN UNION {one(flag) : flag \in flags}

\* A chess.Board(fen) that starts the halfmove clock at 0 whatever the text
\* says.
BoardFromFen_resets_clock(fen) ==
    The({[pieces |-> ps,
          turn |-> (fen.turn = "w"),
          castling_rights |-> CastlingFromFen(ps, fen.castling),
          ep_square |-> (IF fen.ep = "-" THEN {} ELSE SquaresNamed(fen.ep)),
          halfmove_clock |-> 0,
          fullmove_number |-> Max(fen.fullmove, 1),
          move_stack |-> <<>>,
          stack |-> <<>>] :
            ps \in {[sq \in SQUARES |->
                        ExpandRow(fen.rows[8 - square_rank(sq)])[square_file(sq) + 1]]}})

\* chess.Board(fen) for a text set_fen accepts: a board with an empty stack.
BoardFromFen(fen) ==
    The({[pieces |-> ps,
          turn |-> (fen.turn = "w"),
          castling_rights |-> CastlingFromFen(ps, fen.castling),
          ep_square |-> (IF fen.ep = "-" THEN {} ELSE SquaresNamed(fen.ep)),
          halfmove_clock |-> fen.halfmove,
          fullmove_number |-> Max(fen.fullmove, 1),
          move_stack |-> <<>>,
          stack |-> <<>>] :
            ps \in {[sq \in SQUARES |->
                        ExpandRow(fen.rows[8 - square_rank(sq)])[square_file(sq) + 1]]}})

RECURSIVE RowFrom(_, _, _, _)
RowFrom(ps, r, f, run) ==
    LET flush == IF run > 0 THEN <<RANK_NAMES[run]>> ELSE <<>>
    IN IF f = 8 THEN flush
       ELSE IF ps[square(f, r)] = Empty THEN RowFrom(ps, r, f + 1, run + 1)
       ELSE flush \o <<ps[square(f, r)]>> \o RowFrom(ps, r, f + 1, 0)

\* Board.has_legal_en_passant().
has_legal_en_passant(b) ==
    \E t \in b.ep_square : \E f \in SQUARES :
        piece_type_at(b, f) = "p" /\ is_legal(b, Move(f, t, ""))

\* board.fen(): the record of the current position; the en-passant field is
\* written only when an en-passant capture is legal, the castling flags are
\* those of the cleaned rights.
fen(b) ==
    LET clean == clean_castling_rights(b)
        flags == {fl \in {"K", "Q", "k", "q"} :
                     \/ fl = "K" /\ 7 \in clean
                     \/ fl = "Q" /\ 0 \in clean
                     \/ fl = "k" /\ 63 \in clean
                     \/ fl = "q" /\ 56 \in clean}
    IN Fen([i \in 1 .. 8 |-> RowFrom(b.pieces, 8 - i, 0, 0)],
           IF b.turn = WHITE THEN "w" ELSE "b",
           flags,
           IF has_legal_en_passant(b) THEN square_name(CHOOSE t \in b.ep_square : TRUE) ELSE "-",
           b.halfmove_clock,
           b.fullmove_number)

\* chess.Board.starting_fen
STARTING_FEN ==
    Fen(<< <<"r", "n", "b", "q", "k", "b", "n", "r">>,
           <<"p", "p", "p", "p", "p", "p", "p", "p">>,
           <<"8">>, <<"8">>, <<"8">>, <<"8">>,
           <<"P", "P", "P", "P", "P", "P", "P", "P">>,
           <<"R", "N", "B", "Q", "K", "B", "N", "R">> >>,
        "w", {"K", "Q", "k", "q"}, "-", 0, 1)

\* chess.Board(): the standard starting position.
StartBoard == BoardFromFen(STARTING_FEN)


(***************************************************************************)
(* BoardState (board_state.py).  A session is the three fields of the      *)
(* object; every method is an operator from the session and its argument   *)
(* to the session it leaves, what it returns, and the exception it lets    *)
(* escape ("" for none).                                                   *)
(***************************************************************************)
Session(b, f, h) == [board |-> b, initial_fen |-> f, move_history |-> h]

Result(bs, ret, exc) == [bs |-> bs, ret |-> ret, exc |-> exc]

Label(text) == [label |-> text]

\* BoardState.__init__(fen): None and the empty text give the start position.
BoardStateInit(fen_arg) ==
    The({Session(b, fen(b), <<>>) :
            b \in {IF fen_arg \in {None, EmptyFenText} THEN StartBoard ELSE BoardFromFen(fen_arg)}})

\* A load_fen that empties move_history before the text is looked at.
load_fen_clears_first(bs, fen_text) ==
    IF FenRaises(fen_text)
    THEN Result(Session(bs.board, bs.initial_fen, <<>>), None, "ValueError")
    ELSE Result(Session(BoardFromFen(fen_text), fen_text, <<>>), None, "")

\* A load_fen that leaves initial_fen as it was.
load_fen_keeps_initial_fen(bs, fen_text) ==
    IF FenRaises(fen_text) THEN Result(bs, None, "ValueError")
    ELSE Result(Session(BoardFromFen(fen_text), bs.initial_fen, <<>>), None, "")

\* A load_fen that leaves move_history as it was.
load_fen_keeps_history(bs, fen_text) ==
    IF FenRaises(fen_text) THEN Result(bs, None, "ValueError")
    ELSE Result(Session(BoardFromFen(fen_text), fen_text, bs.move_history), None, "")

\* BoardState.load_fen(fen)
load_fen(bs, fen_text) ==
    IF FenRaises(fen_text) THEN Result(bs, None, "ValueError")
    ELSE Result(Session(BoardFromFen(fen_text), fen_text, <<>>), None, "")

\* validate_and_parse_move once parse_san has answered p and from_uci u; the
\* handler catches the exceptions in `caught`.
Validated(bs, p, u, caught) ==
    IF p.ok THEN Result(bs, p.move, "")
    ELSE IF p.exc \notin caught THEN Result(bs, None, p.exc)
    ELSE IF u.ok /\ is_legal(bs.board, u.move) THEN Result(bs, u.move, "")
    ELSE Result(bs, None, "")

\* A validate_and_parse_move whose handler leaves AmbiguousMoveError out.
validate_and_parse_move_two_errors(bs, move_str) ==
    The({Validated(bs, p, u, {"InvalidMoveError", "IllegalMoveError"}) :
            p \in {parse_san(bs.board, move_str)}, u \in {from_uci(move_str)}})

\* A validate_and_parse_move that plays the move it has found on the
\* session's board.
validate_and_parse_move_pushes(bs, move_str) ==
    The({IF v.exc = "" /\ v.ret # None /\ ~SanRaises(bs.board, v.ret)
         THEN Result(Session(push(bs.board, v.ret), bs.initial_fen, bs.move_history), v.ret, "")
         ELSE v :
            v \in {Validated(bs, parse_san(bs.board, move_str), from_uci(move_str),
                             {"InvalidMoveError", "IllegalMoveError", "AmbiguousMoveError"})}})

\* BoardState.validate_and_parse_move(move_str)
validate_and_parse_move(bs, move_str) ==
    The({Validated(bs, p, u, {"InvalidMoveError", "IllegalMoveError", "AmbiguousMoveError"}) :
            p \in {parse_san(bs.board, move_str)}, u \in {from_uci(move_str)}})

\* BoardState.push_move(move)
push_move(bs, move) ==
    IF SanRaises(bs.board, move) THEN Result(bs, None, "AssertionError")
    ELSE Result(Session(push(bs.board, move), bs.initial_fen,
                        Append(bs.move_history, san(bs.board, move))),
                None, "")

\* An undo_move that pops the board whatever move_history holds.
undo_move_pops_first(bs) ==
    IF bs.board.move_stack = <<>> THEN Result(bs, None, "IndexError")
    ELSE Result(Session(pop(bs.board), bs.initial_fen, Front(bs.move_history)),
                Label(Last(bs.move_history)), "")

\* An undo_move that drops the label and leaves the board as it is.
undo_move_keeps_board(bs) ==
    IF bs.move_history # <<>>
    THEN Result(Session(bs.board, bs.initial_fen, Front(bs.move_history)),
                Label(Last(bs.move_history)), "")
    ELSE Result(bs, None, "")

\* BoardState.undo_move()
undo_move(bs) ==
    IF bs.move_history # <<>>
    THEN (IF bs.board.move_stack = <<>> THEN Result(bs, None, "IndexError")
          ELSE Result(Session(pop(bs.board), bs.initial_fen, Front(bs.move_history)),
                      Label(Last(bs.move_history)), ""))
    ELSE Result(bs, None, "")

\* BoardState.get_legal_moves_san()
get_legal_moves_san(bs) == {san(bs.board, m) : m \in legal_moves(bs.board)}

\* BoardState.turn
turn(bs) == IF bs.board.turn = WHITE THEN "White" ELSE "Black"


(***************************************************************************)
(* The inputs the model draws from.                                        *)
(***************************************************************************)
\* 4k3/P6p/8/3pP3/8/5N2/8/1N2K2R w K d6 0 10: White can castle, promote on
\* a8, capture en passant on d6, and play a knight to d2 from b1 or from f3.
FenA ==
    Fen(<< <<"4", "k", "3">>, <<"P", "6", "p">>, <<"8">>, <<"3", "p", "P", "3">>,
           <<"8">>, <<"5", "N", "2">>, <<"8">>, <<"1", "N", "2", "K", "2", "R">> >>,
        "w", {"K"}, "d6", 0, 10)

\* r3k3/3p4/8/4P3/8/8/8/R5K1 b q - 3 20: Black can castle long, push d7-d5
\* past the e5 pawn, and take the rook on a1 with check.
FenB ==
    Fen(<< <<"r", "3", "k", "3">>, <<"3", "p", "4">>, <<"8">>, <<"4", "P", "3">>,
           <<"8">>, <<"8">>, <<"8">>, <<"R", "5", "K", "1">> >>,
        "b", {"q"}, "-", 3, 20)

\* 8/8/8/8/8/8/8/8 w - - 0 1: a record the library accepts with no king on it.
FenBare ==
    Fen(<< <<"8">>, <<"8">>, <<"8">>, <<"8">>, <<"8">>, <<"8">>, <<"8">>, <<"8">> >>,
        "w", {}, "-", 0, 1)

GoodFens == {STARTING_FEN, FenA, FenB, FenBare}

\* Records set_fen refuses: the empty text, seven rows, a row nine squares
\* wide, a side to move that is neither w nor b, an en-passant field that
\* names no square.
BadFens ==
    {EmptyFenText,
     [FenBare EXCEPT !.rows = SubSeq(FenBare.rows, 1, 7)],
     [FenBare EXCEPT !.rows[1] = <<"8", "P">>],
     [FenA EXCEPT !.turn = "x"],
     [FenB EXCEPT !.ep = "z9"]}

FenInputs == GoodFens \cup BadFens

MoveTexts ==
    {SanText("", {}, {}, 28, "", FALSE),      \* e4
     SanText("", {4}, {1}, 28, "", TRUE),     \* e2e4
     SanText("n", {}, {}, 21, "", FALSE),     \* Nf3
     SanText("", {6}, {0}, 21, "", TRUE),     \* g1f3
     SanText("q", {}, {}, 39, "", FALSE),     \* Qh5
     SanText("n", {}, {}, 11, "", FALSE),     \* Nd2
     SanText("n", {1}, {}, 11, "", FALSE),    \* Nbd2
     SanText("", {}, {}, 56, "q", FALSE),     \* a8=Q
     SanText("", {0}, {6}, 56, "", TRUE),     \* a7a8
     SanText("", {4}, {}, 43, "", FALSE),     \* exd6
     SanText("", {}, {}, 35, "", FALSE),      \* d5
     SanText("", {}, {}, 36, "", FALSE),      \* e5
     SanText("r", {}, {}, 0, "", FALSE),      \* Rxa1
     CastleText(FALSE),                        \* O-O
     CastleText(TRUE),                         \* O-O-O
     NullText("--"),
     NullText("0000"),
     InvalidText}                              \* hello

\* The moves handed to push_move directly: the null move, e2e4, e2e5, g1f3,
\* a3a4, a7a8q and d7d5.
ApiMoves ==
    {NullMove, Move(12, 28, ""), Move(12, 36, ""), Move(6, 21, ""),
     Move(16, 24, ""), Move(48, 56, "q"), Move(51, 35, "")}

(***************************************************************************)
(* The BoardState methods called directly, in any order, with any of the   *)
(* inputs above.                                                           *)
(***************************************************************************)
Call(op, arg, ret, exc) == [op |-> op, arg |-> arg, ret |-> ret, exc |-> exc]

CurrentSession == Session(board, initial_fen, move_history)

ApiSet(r, op, arg) ==
    /\ board' = r.bs.board
    /\ initial_fen' = r.bs.initial_fen
    /\ move_history' = r.bs.move_history
    /\ last' = Call(op, arg, r.ret, r.exc)
    /\ trail' = [op |-> last.op, exc |-> last.exc]
    /\ UNCHANGED <<pc, engine, conversation_history, info>>

ApiInit ==
    /\ \E f \in {None} \cup GoodFens : \E bs \in {BoardStateInit(f)} :
          board = bs.board /\ initial_fen = bs.initial_fen /\ move_history = bs.move_history
    /\ pc = "api"
    /\ engine = "none"
    /\ conversation_history = <<>>
    /\ info = <<>>
    /\ last = Call("init", None, None, "")
    /\ trail = [op |-> "", exc |-> ""]

ApiLoadFen ==
    \E t \in FenInputs : \E bs \in {CurrentSession} : \E r \in {load_fen(bs, t)} :
        ApiSet(r, "load_fen", t)

ApiValidate ==
    \E t \in MoveTexts : \E bs \in {CurrentSession} : \E r \in {validate_and_parse_move(bs, t)} :
        ApiSet(r, "validate_and_parse_move", t)

ApiPushMove ==
    /\ Len(move_history) < MaxPlies
    /\ \E m \in ApiMoves : \E bs \in {CurrentSession} : \E r \in {push_move(bs, m)} :
          ApiSet(r, "push_move", m)

ApiUndoMove ==
    \E bs \in {CurrentSession} : \E r \in {undo_move(bs)} : ApiSet(r, "undo_move", None)

ApiNext == ApiLoadFen \/ ApiValidate \/ ApiPushMove \/ ApiUndoMove

ApiSpec == ApiInit /\ [][ApiNext]_vars

(***************************************************************************)
(* Properties of the BoardState methods.                                   *)
(***************************************************************************)
\* C1: after any sequence of load_fen, push_move and undo_move calls, in any
\* order, move_history is exactly as long as the board's own move stack.
C1_HistoryMatchesStack == Len(move_history) = Len(board.move_stack)

\* A move was pushed after an undo, and the session holds moves.
C1_Witness ==
    /\ last.op = "push_move" /\ last.exc = ""
    /\ trail.op = "undo_move"
    /\ Len(move_history) = MaxPlies

\* C2: from every session and for every legal move m, push_move(m) followed
\* at once by undo_move() gives back the session as it was (the board with
\* its pieces, side to move, castling rights, en-passant square and both
\* counters, and move_history), and undo_move returns the label push_move
\* appended.
C2_PushThenUndoRestores ==
    \A m \in legal_moves(board) :
        \E pushed \in {push_move(CurrentSession, m)} : \E u \in {undo_move(pushed.bs)} :
            /\ pushed.exc = "" /\ u.exc = ""
            /\ Len(pushed.bs.move_history) = Len(move_history) + 1
            /\ u.bs = CurrentSession
            /\ u.ret = Label(Last(pushed.bs.move_history))

\* The knight move g1f3 was pushed on the start position and undone: the
\* start position is back and the label Nf3 was returned.
C2_Witness ==
    /\ last.op = "undo_move" /\ last.ret = Label("Nf3")
    /\ trail.op = "push_move" /\ trail.exc = ""
    /\ board = StartBoard
    /\ move_history = <<>>

\* C4: after load_fen succeeds on a text, whatever the session was, the
\* board is the position the text encodes, initial_fen is the text,
\* move_history and the board's move stack are empty, and undo_move at once
\* returns None and changes nothing.
C4_LoadFenResets ==
    (last.op = "load_fen" /\ last.exc = "") =>
        /\ board = BoardFromFen(last.arg)
        /\ fen(board) = last.arg
        /\ initial_fen = last.arg
        /\ move_history = <<>>
        /\ board.move_stack = <<>>
        /\ undo_move(CurrentSession) = Result(CurrentSession, None, "")

\* A position was loaded right after a move had been pushed.
C4_Witness ==
    /\ last.op = "load_fen" /\ last.exc = "" /\ last.arg = FenA
    /\ trail.op = "push_move" /\ trail.exc = ""

\* C5: whenever validate_and_parse_move returns a move and not None, the
\* move is one of the legal moves of the current board.
C5_ReturnedMoveIsLegal ==
    (last.op = "validate_and_parse_move" /\ last.ret # None) =>
        last.ret \in legal_moves(board)

\* The legal moves that a label in algebraic notation names: the moves to
\* its square of arrival with its promotion, by its piece (a pawn when it
\* names none, and then from the file of arrival unless it names a file),
\* from whatever it says of the square of departure.  `move in legal_moves`
\* is is_legal(move).
NamedBy(b, text) ==
    {m \in {Move(f, text.to_square, text.promotion) : f \in SQUARES} :
        /\ piece_type_at(b, m.from_square) = (IF text.piece = "" THEN "p" ELSE text.piece)
        /\ \A f \in text.from_file : square_file(m.from_square) = f
        /\ \A r \in text.from_rank : square_rank(m.from_square) = r
        /\ (text.piece = "" /\ text.from_file = {}) =>
               square_file(m.from_square) = square_file(m.to_square)
        /\ is_legal(b, m)}

Cp(v) == [kind |-> "cp", v |-> v]

Mate(n) == [kind |-> "mate", v |-> n]

PovScore(relative, color) == [relative |-> relative, turn |-> color]

\* PovScore.white()
White(pov) ==
    IF pov.turn = WHITE THEN pov.relative ELSE [pov.relative EXCEPT !.v = -pov.relative.v]

\* The mate_score of score.score(mate_score=10000).
MATE_SCORE == 10000

\* Score.score(mate_score=10000)
ScoreCp(score) ==
    IF score.kind = "cp" THEN score.v
    ELSE IF score.v > 0 THEN MATE_SCORE - score.v
    ELSE -MATE_SCORE - score.v

\* Score.mate()
ScoreMate(score) == IF score.kind = "mate" THEN [moves |-> score.v] ELSE None

\* One entry of the engine's analysis: its score and, when has_pv, its
\* principal variation.
Info(score, has_pv, pv) == [score |-> score, has_pv |-> has_pv, pv |-> pv]

\* The number of moves of a principal variation that are looked at.
PV_CAP == 5

Min(a, b) == IF a < b THEN a ELSE b

\* A replay that labels a move that is not legal and goes on with the next.
RECURSIVE ReplayPv_goes_on(_, _)
ReplayPv_goes_on(pv_board, pv_moves) ==
    IF pv_moves = <<>> THEN <<>>
    ELSE The({IF ~is_legal(pv_board, m)
              THEN <<uci(m)>> \o ReplayPv_goes_on(pv_board, Tail(pv_moves))
              ELSE <<san(pv_board, m)>> \o ReplayPv_goes_on(push(pv_board, m), Tail(pv_moves)) :
                 m \in {Head(pv_moves)}})

\* A replay that never pushes: every move is looked at in the root position.
RECURSIVE ReplayPv_on_root(_, _)
ReplayPv_on_root(pv_board, pv_moves) ==
    IF pv_moves = <<>> THEN <<>>
    ELSE The({IF ~is_legal(pv_board, m) THEN <<uci(m)>>
              ELSE <<san(pv_board, m)>> \o ReplayPv_on_root(pv_board, Tail(pv_moves)) :
                 m \in {Head(pv_moves)}})

\* The labels of the principal variation, replayed on a scratch copy: the
\* label of each move legal where it occurs, then the coordinate label of the
\* first move that is not, and nothing after it.
RECURSIVE ReplayPv(_, _)
ReplayPv(pv_board, pv_moves) ==
    IF pv_moves = <<>> THEN <<>>
    ELSE The({IF ~is_legal(pv_board, m) THEN <<uci(m)>>
              ELSE <<san(pv_board, m)>> \o ReplayPv(push(pv_board, m), Tail(pv_moves)) :
                 m \in {Head(pv_moves)}})

\* The body of analyze_position's loop for one entry of the analysis.
AnalyzeLine(b, i) ==
    LET pv_moves == SubSeq(i.pv, 1, Min(PV_CAP, Len(i.pv)))
    IN IF ~i.has_pv THEN Result(None, None, "KeyError")
       ELSE IF i.pv = <<>> THEN Result(None, None, "IndexError")
       ELSE IF SanRaises(b, i.pv[1]) THEN Result(None, None, "AssertionError")
       ELSE Result(None,
                   [move |-> i.pv[1],
                    san |-> san(b, i.pv[1]),
                    score_cp |-> ScoreCp(White(i.score)),
                    mate |-> ScoreMate(White(i.score)),
                    pv |-> ReplayPv(b, pv_moves)],
                   "")

\* EngineAnalysis.analyze_position(board) when the engine answers `result`:
\* the lines in the engine's order, or the first exception raised.
RECURSIVE analyze_position(_, _)
analyze_position(b, result) ==
    IF result = <<>> THEN Result(None, <<>>, "")
    ELSE The({IF line.exc # "" THEN Result(None, <<>>, line.exc)
              ELSE IF rest.exc # "" THEN rest
              ELSE Result(None, <<line.ret>> \o rest.ret, "") :
                 line \in {AnalyzeLine(b, Head(result))},
                 rest \in {analyze_position(b, Tail(result))}})

\* EngineAnalysis.evaluate_move(board, move) when the engine answers with
\* `relative` for the position after the move.
evaluate_move(b, move, relative) ==
    The({[move |-> move, san |-> san(b, move), score_cp |-> ScoreCp(score), mate |-> ScoreMate(score)] :
            score \in {White(PovScore(relative, push(b, move).turn))}})


(***************************************************************************)
(* analyze_position on the start position, for every principal variation   *)
(* the engine can report over four knight moves.                           *)
(***************************************************************************)
\* g1f3, b8c6, f3g1 and c6b8.
PvMoves == {Move(6, 21, ""), Move(57, 42, ""), Move(21, 6, ""), Move(42, 57, "")}

\* The scores the engine reports, relative to the side to move.
EngineScores == {Cp(35), Cp(-35), Mate(2)}

EngineInit ==
    /\ board = StartBoard
    /\ initial_fen = STARTING_FEN
    /\ move_history = <<>>
    /\ pc = "engine"
    /\ engine = "running"
    /\ conversation_history = <<>>
    /\ info = <<>>
    /\ last = Call("init", None, None, "")
    /\ trail = [op |-> "", exc |-> ""]

\* The engine's principal variation grows by one move.
EngineExtendPv ==
    /\ Len(info) < MaxPv
    /\ \E m \in PvMoves : info' = Append(info, m)
    /\ last' = Call("init", None, None, "")
    /\ UNCHANGED <<board, initial_fen, move_history, pc, engine, conversation_history, trail>>

\* analyze_position is called and the engine answers with one entry.
EngineAnalyze ==
    /\ last.op = "init"
    /\ \E score \in EngineScores :
          \E r \in {analyze_position(board, <<Info(PovScore(score, board.turn), TRUE, info)>>)} :
              last' = Call("analyze_position", score, r.ret, r.exc)
    /\ UNCHANGED <<board, initial_fen, move_history, pc, engine, conversation_history, info, trail>>

EngineNext == EngineExtendPv \/ EngineAnalyze

EngineSpec == EngineInit /\ [][EngineNext]_vars

\* The position after the first k moves of a variation are made on b.
RECURSIVE PositionAfter(_, _, _)
PositionAfter(b, moves, k) ==
    IF k = 0 THEN b ELSE push(PositionAfter(b, moves, k - 1), moves[k])

\* The i-th move the engine reported is legal after the moves before it.
LegalInSequence(i) == is_legal(PositionAfter(board, info, i - 1), info[i])

\* C7: every entry kept in a returned line's pv is a move that is legal in
\* the position reached by the entries kept before it; no kept entry is a
\* move that is not legal where it occurs.
C7_EveryKeptEntryLegal ==
    (last.op = "analyze_position" /\ last.exc = "") =>
        \A k \in 1 .. Len(last.ret) :
            \A i \in 1 .. Len(last.ret[k].pv) : LegalInSequence(i)

\* C7 as the code has it: every kept entry but the last is a move legal where
\* it occurs and is labelled in algebraic notation; the last kept entry is
\* either such a move or the first move of the variation that is not legal
\* where it occurs, kept under its coordinate label; at most PV_CAP entries
\* are kept.
C7_KeptLegalButTheLast ==
    (last.op = "analyze_position" /\ last.exc = "") =>
        \A k \in 1 .. Len(last.ret) :
            LET pv == last.ret[k].pv
            IN /\ Len(pv) <= PV_CAP
               /\ \A i \in 1 .. Len(pv) :
                     \/ /\ LegalInSequence(i)
                        /\ pv[i] = san(PositionAfter(board, info, i - 1), info[i])
                     \/ /\ i = Len(pv)
                        /\ pv[i] = uci(info[i])

\* The engine reported g1f3 twice: the line keeps Nf3 and then g1f3.
C7_Witness ==
    /\ last.op = "analyze_position" /\ last.exc = ""
    /\ Len(info) >= 2 /\ LegalInSequence(1) /\ ~LegalInSequence(2)
    /\ last.ret[1].pv = <<"Nf3", "g1f3">>


\* C18: the pv of a returned line is made from the first PV_CAP moves of
\* the engine's variation.  When one of them is not legal in the position
\* the moves before it lead to, the pv is the algebraic labels of the moves
\* before the first such move, then that move's coordinate label, and
\* nothing more; otherwise it is the algebraic labels of all of them.  Each
\* move is judged in the replayed position, not in the root position.
C18_PvStopsAtFirstIllegal ==
    (last.op = "analyze_position" /\ last.exc = "") =>
        \A k \in 1 .. Len(last.ret) :
            \E pv \in {last.ret[k].pv} : \E n \in {Min(PV_CAP, Len(info))} :
            \E bad \in {{i \in 1 .. n : (\A j \in 1 .. (i - 1) : LegalInSequence(j))
                                        /\ ~LegalInSequence(i)}} :
                /\ Len(pv) = (IF bad = {} THEN n ELSE SetMin(bad))
                /\ \A i \in 1 .. Len(pv) :
                      pv[i] = (IF i \in bad THEN uci(info[i])
                               ELSE san(PositionAfter(board, info, i - 1), info[i]))

\* The engine reported g1f3, b8c6, g1f3 and more: b8c6 is not legal in the
\* root position and is kept as Nc6; the second g1f3 ends the pv.
C18_Witness ==
    /\ last.op = "analyze_position" /\ last.exc = ""
    /\ Len(info) >= 4
    /\ ~is_legal(board, info[2])
    /\ last.ret[1].pv = <<"Nf3", "Nc6", "g1f3">>

(***************************************************************************)
(* Coach._send (coach.py).  The language-model service is outside the      *)
(* program: what each attempt meets ("ok", "rate_limit", "connection",     *)
(* "status", or "error" for any other exception) is an input.  A message   *)
(* of the conversation is its role and the kind of its content.            *)
(***************************************************************************)
Message(role, content) == [role |-> role, content |-> content]

\* max_retries of Coach._send.
MAX_RETRIES == 3

Sent(hist, ret, exc, waits) == [hist |-> hist, ret |-> ret, exc |-> exc, waits |-> waits]

\* A _send that goes on to the next attempt after a connection error.
RECURSIVE SendAttempt_retries_connection(_, _, _)
SendAttempt_retries_connection(hist, outcomes, attempt) ==
    IF attempt >= MAX_RETRIES
    THEN Sent(Front(hist), "Rate limit exceeded after retries.", "", <<>>)
    ELSE CASE outcomes[attempt + 1] = "ok" ->
                Sent(Append(hist, Message("assistant", "reply")), "reply", "", <<>>)
           [] outcomes[attempt + 1] = "rate_limit" ->
                [SendAttempt_retries_connection(hist, outcomes, attempt + 1)
                    EXCEPT !.waits = <<2 ^ attempt>> \o @]
           [] outcomes[attempt + 1] = "connection" ->
                SendAttempt_retries_connection(hist, outcomes, attempt + 1)
           [] outcomes[attempt + 1] = "status" ->
                Sent(Front(hist), "API error", "", <<>>)
           [] OTHER -> Sent(hist, "", "Exception", <<>>)

\* The attempts of _send from `attempt` on; hist ends with the user's message.
RECURSIVE SendAttempt(_, _, _)
SendAttempt(hist, outcomes, attempt) ==
    IF attempt >= MAX_RETRIES
    THEN Sent(Front(hist), "Rate limit exceeded after retries.", "", <<>>)
    ELSE CASE outcomes[attempt + 1] = "ok" ->
                Sent(Append(hist, Message("assistant", "reply")), "reply", "", <<>>)
           [] outcomes[attempt + 1] = "rate_limit" ->
                [SendAttempt(hist, outcomes, attempt + 1) EXCEPT !.waits = <<2 ^ attempt>> \o @]
           [] outcomes[attempt + 1] = "connection" ->
                Sent(Front(hist), "Connection error", "", <<>>)
           [] outcomes[attempt + 1] = "status" ->
                Sent(Front(hist), "API error", "", <<>>)
           [] OTHER -> Sent(hist, "", "Exception", <<>>)

\* Coach._send(user_message) for a message of the given kind.
Send(hist, kind, outcomes) == SendAttempt(Append(hist, Message("user", kind)), outcomes, 0)

\* What the attempts of one _send call meet.
CoachOutcomes ==
    {<<"ok", "ok", "ok">>,
     <<"rate_limit", "ok", "ok">>,
     <<"rate_limit", "rate_limit", "rate_limit">>,
     <<"connection", "ok", "ok">>,
     <<"status", "ok", "ok">>,
     <<"error", "ok", "ok">>}

(***************************************************************************)
(* Coach._send called directly, one call after another, each attempt of    *)
(* each call meeting any of the outcomes.                                  *)
(***************************************************************************)
\* The number of calls after which the conversation is long enough.
MaxSends == 2

\* What the attempts of a call meet, for every combination of outcomes.
AllOutcomes == [1 .. MAX_RETRIES -> {"ok", "rate_limit", "connection", "status", "error"}]

CoachInit ==
    /\ board = StartBoard
    /\ initial_fen = STARTING_FEN
    /\ move_history = <<>>
    /\ pc = "coach"
    /\ engine = "none"
    /\ conversation_history = <<>>
    /\ info = <<>>
    /\ last = Call("init", None, None, "")
    /\ trail = [op |-> "", exc |-> ""]

\* One call of _send: the history it leaves, what it returns, the waits it
\* made; the history before the call is remembered.
CoachSend ==
    /\ Len(conversation_history) < 2 * MaxSends
    /\ \E kind \in {"analysis", "question"} : \E outcomes \in AllOutcomes :
       \E sent \in {Send(conversation_history, kind, outcomes)} :
          /\ conversation_history' = sent.hist
          /\ last' = Call("_send",
                          [kind |-> kind, outcomes |-> outcomes, before |-> conversation_history],
                          [text |-> sent.ret, waits |-> sent.waits],
                          sent.exc)
    /\ UNCHANGED <<board, initial_fen, move_history, pc, engine, info, trail>>

CoachNext == CoachSend

CoachSpec == CoachInit /\ [][CoachNext]_vars

\* The roles of a history alternate, the user's first, and the last is the
\* assistant's.
Alternates(hist) ==
    /\ Len(hist) % 2 = 0
    /\ \A i \in 1 .. Len(hist) : hist[i].role = (IF i % 2 = 1 THEN "user" ELSE "assistant")

\* C21: when a call of _send is over, conversation_history is what it was
\* before the call, or that followed by the user's message and the
\* assistant's reply; it has even length and its roles alternate.
C21_HistoryUnchangedOrExtended ==
    last.op = "_send" =>
        /\ \/ conversation_history = last.arg.before
           \/ conversation_history =
                 last.arg.before \o <<Message("user", last.arg.kind), Message("assistant", last.ret.text)>>
        /\ Alternates(conversation_history)

\* The number of attempts of a call that met a rate limit before any other
\* outcome.
RateLimitsMet(outcomes) ==
    Cardinality({k \in 1 .. MAX_RETRIES : \A j \in 1 .. k : outcomes[j] = "rate_limit"})

\* C22: a call of _send is over after at most MAX_RETRIES attempts.  Each
\* attempt that meets a rate limit is followed by a wait of 2^k seconds, k
\* counting the attempts from 0; after the third the call returns the
\* rate-limit-exceeded message.  The first attempt that meets anything else
\* ends the call: a reply is returned, a connection or status error gives
\* its message, and what later attempts would have met changes nothing.
C22_AtMostThreeAttempts ==
    last.op = "_send" =>
        \E o \in {last.arg.outcomes} : \E w \in {last.ret.waits} : \E r \in {RateLimitsMet(last.arg.outcomes)} :
            /\ Len(w) = r
            /\ \A i \in 1 .. Len(w) : w[i] = 2 ^ (i - 1)
            /\ Len(w) + (IF r < MAX_RETRIES THEN 1 ELSE 0) <= 3
            /\ r = MAX_RETRIES =>
                  last.ret.text = "Rate limit exceeded after retries." /\ last.exc = ""
            /\ r < MAX_RETRIES =>
                  /\ o[r + 1] = "ok" => last.ret.text = "reply" /\ last.exc = ""
                  /\ o[r + 1] = "connection" => last.ret.text = "Connection error" /\ last.exc = ""
                  /\ o[r + 1] = "status" => last.ret.text = "API error" /\ last.exc = ""
                  /\ \A other \in AllOutcomes :
                        (\A i \in 1 .. (r + 1) : other[i] = o[i]) =>
                            Send(last.arg.before, last.arg.kind, other)
                            = Send(last.arg.before, last.arg.kind, o)

\* Three attempts met a rate limit: the waits were 1, 2 and 4 seconds and
\* the call returned the rate-limit-exceeded message.
C22_Witness ==
    /\ last.op = "_send"
    /\ last.arg.outcomes = <<"rate_limit", "rate_limit", "rate_limit">>
    /\ last.ret.waits = <<1, 2, 4>>
    /\ last.ret.text = "Rate limit exceeded after retries."
    /\ conversation_history = last.arg.before

(***************************************************************************)
(* extract_heuristics (heuristics.py), as far as main() depends on it:     *)
(* _king_safety hands board.king(color) to board.attackers, which raises   *)
(* TypeError when the side has no king.                                    *)
(***************************************************************************)
ExtractHeuristicsRaises(b) == king(b, WHITE) = None \/ king(b, BLACK) = None

\* PIECE_VALUES, and the order in which its items are summed.
PIECE_VALUES == [pt \in PIECE_TYPES |->
                    CASE pt = "p" -> 1 [] pt = "n" -> 3 [] pt = "b" -> 3
                      [] pt = "r" -> 5 [] pt = "q" -> 9 [] pt = "k" -> 0]

\* CENTER_SQUARES: d4, d5, e4, e5.
CENTER_SQUARES == <<27, 35, 28, 36>>

\* sum(...) over the values of a function with a finite domain.
RECURSIVE sum(_)
sum(f) ==
    IF DOMAIN f = {} THEN 0
    ELSE \* one term is taken out and the rest are summed
         (LET x == CHOOSE x \in DOMAIN f : TRUE
          IN f[x] + sum([y \in DOMAIN f \ {x} |-> f[y]]))

\* The elements of a set of integers in rising order: the order in which
\* `for sq in chess.SQUARES`, `for f in range(8)` and the iteration of a set
\* of file numbers visit them.
RECURSIVE Ascending(_)
Ascending(S) ==
    IF S = {} THEN <<>> ELSE <<SetMin(S)>> \o Ascending(S \ {SetMin(S)})

\* A material count in which every piece weighs one point.
material_ignores_weights(b, color) ==
    sum([pt \in PIECE_TYPES |-> Cardinality(pieces(b, pt, color))])

\* The material of one side: sum(len(board.pieces(pt, color)) * val ...).
material(b, color) ==
    sum([pt \in PIECE_TYPES |-> Cardinality(pieces(b, pt, color)) * PIECE_VALUES[pt]])

\* _material_balance(board); the description is its three numbers, the last
\* one written with its sign.
_material_balance(b) ==
    The({[white |-> w, black |-> bl, balance |-> w - bl,
          description |-> <<w, bl, IF w - bl < 0 THEN "-" ELSE "+", Abs(w - bl)>>] :
            w \in {material(b, WHITE)}, bl \in {material(b, BLACK)}})

\* _center_control(board)
_center_control(b) ==
    The({[white_controls |-> w, black_controls |-> bl, description |-> <<w, bl>>] :
            w \in {Cardinality({i \in 1 .. 4 : is_attacked_by(b, WHITE, CENTER_SQUARES[i])})},
            bl \in {Cardinality({i \in 1 .. 4 : is_attacked_by(b, BLACK, CENTER_SQUARES[i])})}})

\* _piece_activity(board)
_piece_activity(b) ==
    The({[white_activity |-> w, black_activity |-> bl, description |-> <<w, bl>>] :
            w \in {sum([sq \in OccupiedCo(b, WHITE) |-> Cardinality(attacks(b, sq))])},
            bl \in {sum([sq \in OccupiedCo(b, BLACK) |-> Cardinality(attacks(b, sq))])}})

\* shield_pawns of _king_safety for a king on king_sq: the three offsets are
\* added to the square's number and only 0 <= sq <= 63 is tested.
shield_pawns(b, color, king_sq) ==
    LET direction == IF color = WHITE THEN 8 ELSE -8
    IN Cardinality({offset \in {direction - 1, direction, direction + 1} :
                       /\ king_sq + offset \in SQUARES
                       /\ b.pieces[king_sq + offset] = Symbol("p", color)})

\* _king_safety(board), for a board with both kings.
_king_safety(b) ==
    LET entry(color) ==
            The({[attackers |-> Cardinality(attackers(b, ~color, k.sq)),
                  in_check |-> (is_check(b) /\ b.turn = color),
                  castled |-> ~has_castling_rights(b, color),
                  pawn_shield |-> shield_pawns(b, color, k.sq)] : k \in {king(b, color)}})
    IN [white |-> entry(WHITE), black |-> entry(BLACK)]

\* One issue of _pawn_structure: its kind and the file's letter.
Issue(kind, f) == [issue |-> kind, file |-> FILE_NAMES[f + 1]]

\* A _pawn_structure whose isolated files come in falling order on a board
\* that has moves on its stack and in rising order on one that has none.
_pawn_structure_order_varies(b) ==
    LET count(color, f) == Cardinality({sq \in pieces(b, "p", color) : square_file(sq) = f})
        doubled(color) == Ascending({f \in 0 .. 7 : count(color, f) > 1})
        isolated(color) ==
            The({IF b.move_stack = <<>> THEN fs ELSE [i \in 1 .. Len(fs) |-> fs[Len(fs) + 1 - i]] :
                    fs \in {Ascending({f \in 0 .. 7 :
                                /\ count(color, f) > 0
                                /\ ~\E af \in {f - 1, f + 1} : af \in 0 .. 7 /\ count(color, af) > 0})}})
        issues(color) ==
            [i \in 1 .. Len(doubled(color)) |-> Issue("doubled pawns", doubled(color)[i])]
            \o [i \in 1 .. Len(isolated(color)) |-> Issue("isolated pawn", isolated(color)[i])]
    IN [white |-> issues(WHITE), black |-> issues(BLACK)]

\* A _pawn_structure that calls a file doubled as soon as it holds a pawn.
_pawn_structure_counts_from_one(b) ==
    LET count(color, f) == Cardinality({sq \in pieces(b, "p", color) : square_file(sq) = f})
        doubled(color) == Ascending({f \in 0 .. 7 : count(color, f) > 0})
        isolated(color) ==
            Ascending({f \in 0 .. 7 :
                          /\ count(color, f) > 0
                          /\ ~\E af \in {f - 1, f + 1} : af \in 0 .. 7 /\ count(color, af) > 0})
        issues(color) ==
            [i \in 1 .. Len(doubled(color)) |-> Issue("doubled pawns", doubled(color)[i])]
            \o [i \in 1 .. Len(isolated(color)) |-> Issue("isolated pawn", isolated(color)[i])]
    IN [white |-> issues(WHITE), black |-> issues(BLACK)]

\* _pawn_structure(board)
_pawn_structure(b) ==
    LET count(color, f) == Cardinality({sq \in pieces(b, "p", color) : square_file(sq) = f})
        doubled(color) == Ascending({f \in 0 .. 7 : count(color, f) > 1})
        isolated(color) ==
            Ascending({f \in 0 .. 7 :
                          /\ count(color, f) > 0
                          /\ ~\E af \in {f - 1, f + 1} : af \in 0 .. 7 /\ count(color, af) > 0})
        issues(color) ==
            [i \in 1 .. Len(doubled(color)) |-> Issue("doubled pawns", doubled(color)[i])]
            \o [i \in 1 .. Len(isolated(color)) |-> Issue("isolated pawn", isolated(color)[i])]
    IN [white |-> issues(WHITE), black |-> issues(BLACK)]

\* One entry of _tactical_motifs: the check notice, or a hanging piece's
\* symbol and square.
Motif(kind, symbol, name) == [motif |-> kind, piece |-> symbol, square |-> name]

\* A _tactical_motifs that does not look for defenders.
Hanging_ignores_defenders(b) ==
    {sq \in SQUARES :
        /\ b.pieces[sq] # Empty
        /\ piece_type_at(b, sq) # "k"
        /\ is_attacked_by(b, ~IsColor(b, sq, WHITE), sq)}

\* The squares _tactical_motifs reports as hanging.
Hanging(b) ==
    {sq \in SQUARES :
        /\ b.pieces[sq] # Empty
        /\ piece_type_at(b, sq) # "k"
        /\ is_attacked_by(b, ~IsColor(b, sq, WHITE), sq)
        /\ ~is_attacked_by(b, IsColor(b, sq, WHITE), sq)}

\* _tactical_motifs(board)
_tactical_motifs(b) ==
    (IF is_check(b) THEN <<Motif("CHECK", "", "")>> ELSE <<>>)
    \o The({[i \in 1 .. Len(sqs) |-> Motif("HANGING", b.pieces[sqs[i]], square_name(sqs[i]))] :
               sqs \in {Ascending(Hanging(b))}})

\* start_positions of _development, in the order of the dictionary.
start_positions(color) ==
    IF color = WHITE
    THEN <<[sq |-> 1, label |-> "Nb1"], [sq |-> 6, label |-> "Ng1"],
           [sq |-> 2, label |-> "Bc1"], [sq |-> 5, label |-> "Bf1"]>>
    ELSE <<[sq |-> 57, label |-> "Nb8"], [sq |-> 62, label |-> "Ng8"],
           [sq |-> 58, label |-> "Bc8"], [sq |-> 61, label |-> "Bf8"]>>

\* _development(board)
_development(b) ==
    LET undeveloped(color) ==
            The({[i \in 1 .. Len(kept) |-> kept[i].label] :
                    kept \in {SelectSeq(start_positions(color), LAMBDA p : IsColor(b, p.sq, color))}})
    IN [white |-> undeveloped(WHITE), black |-> undeveloped(BLACK)]

\* extract_heuristics(board): the report of seven groups, or the TypeError
\* of _king_safety.
extract_heuristics(b) ==
    IF ExtractHeuristicsRaises(b) THEN Result(None, None, "TypeError")
    ELSE Result(None,
                [material |-> _material_balance(b),
                 center_control |-> _center_control(b),
                 piece_activity |-> _piece_activity(b),
                 king_safety |-> _king_safety(b),
                 pawn_structure |-> _pawn_structure(b),
                 tactics |-> _tactical_motifs(b),
                 development |-> _development(b)],
                "")

(***************************************************************************)
(* main() (main.py): the command loop.                                     *)
(***************************************************************************)
\* format_top_moves(moves): per line its rank, its label, whether the score
\* is shown as a mate distance, and the labels of its variation.
format_top_moves(moves) ==
    [i \in 1 .. Len(moves) |->
        [rank |-> i,
         san |-> moves[i].san,
         as_mate |-> moves[i].mate # None /\ moves[i].mate # [moves |-> 0],
         score |-> IF moves[i].mate # None /\ moves[i].mate # [moves |-> 0]
                   THEN moves[i].mate.moves ELSE moves[i].score_cp,
         pv |-> moves[i].pv]]

\* `not move` in main(): None and the null move are both false.
Falsy(move) == IF move = None THEN TRUE ELSE ~MoveBool(move)

\* A stop that quits nothing.
stop_leaves_running(e) == e

\* EngineAnalysis.stop(): quit the engine process if there is one.
stop(e) == IF e = "none" THEN e ELSE "stopped"

\* What a command did: its input, what it printed, the exception it let
\* through, and what it computed.
Cmd(op, arg, out, exc, data) == [op |-> op, arg |-> arg, out |-> out, exc |-> exc, data |-> data]

\* The answers of the engine to analyze_position's request on b: an
\* exception, no entry, one entry, two entries, an entry without a variation.
EngineReplies(b) ==
    {[exc |-> "EngineError", lines |-> <<>>], [exc |-> "", lines |-> <<>>],
     [exc |-> "", lines |-> <<Info(PovScore(Cp(35), b.turn), FALSE, <<>>)>>],
     [exc |-> "", lines |-> <<Info(PovScore(Cp(35), b.turn), TRUE, <<Move(6, 21, "")>>),
                              Info(PovScore(Cp(-35), b.turn), TRUE, <<Move(57, 42, ""), Move(6, 21, "")>>)>>]}
    \cup {[exc |-> "", lines |-> <<Info(PovScore(sc, b.turn), TRUE, <<m>>)>>] :
             sc \in EngineScores, m \in PvMoves}

\* The answers of the engine to evaluate_move's request: an exception or a
\* score relative to the side to move after the move.
EvalReplies == {[exc |-> "EngineError", score |-> Cp(0)]} \cup {[exc |-> "", score |-> sc] : sc \in EngineScores}

Init ==
    /\ \E bs \in {BoardStateInit(None)} :
          board = bs.board /\ initial_fen = bs.initial_fen /\ move_history = bs.move_history
    /\ pc = "start"
    /\ engine = "none"
    /\ conversation_history = <<>>
    /\ info = <<>>
    /\ last = Cmd("init", None, <<>>, "", None)
    /\ trail = [op |-> "", exc |-> ""]


\* engine.start(), then the banner; popen_uci can raise, before the try.
Start ==
    /\ pc = "start"
    /\ \E started \in BOOLEAN :
          /\ engine' = (IF started THEN "running" ELSE engine)
          /\ pc' = (IF started THEN "input" ELSE "failed")
          /\ last' = Cmd("start", None, IF started THEN <<"=== AI Chess Coach ===">> ELSE <<>>,
                         IF started THEN "" ELSE "EngineError", None)
    /\ UNCHANGED <<board, initial_fen, move_history, conversation_history, info, trail>>

\* A command has run: the session and the conversation it leaves, what it
\* printed and computed, and where main() goes on: to the next turn of the
\* loop, or out through finally when an exception passes.
Ran(bs, conv, op, arg, out, exc, data) ==
    /\ board' = bs.board
    /\ initial_fen' = bs.initial_fen
    /\ move_history' = bs.move_history
    /\ conversation_history' = conv
    /\ last' = Cmd(op, arg, out, exc, data)
    /\ pc' = (IF exc = "" THEN "continue" ELSE "finally")
    /\ UNCHANGED <<engine, info, trail>>

\* A command that changes nothing: it prints `out`, and lets `exc` through
\* when exc is an exception.
Through(bs, op, arg, out, exc) == Ran(bs, conversation_history, op, arg, out, exc, None)

\* A command that ends with a call to the coach: the reply is printed, or
\* the exception of _send passes.
Told(bs, op, arg, out, sent, data) ==
    Ran(bs, sent.hist, op, arg, IF sent.exc = "" THEN Append(out, sent.ret) ELSE out, sent.exc, data)

\* The loop comes back to input("chess> ").
NextInput ==
    /\ pc = "continue"
    /\ pc' = "input"
    /\ last' = Cmd("input", None, <<>>, "", None)
    /\ UNCHANGED <<board, initial_fen, move_history, engine, conversation_history, info, trail>>

\* quit, the end of the input, or an interrupt at the prompt.
Leave ==
    /\ pc = "input"
    /\ \E how \in {"quit", "EOFError", "KeyboardInterrupt"} :
          last' = Cmd(how, None, <<>>, IF how = "KeyboardInterrupt" THEN how ELSE "", None)
    /\ pc' = "finally"
    /\ UNCHANGED <<board, initial_fen, move_history, engine, conversation_history, info, trail>>

\* An empty line, help, or a word that is no command.
CmdOther ==
    /\ pc = "input"
    /\ \E word \in {"", "help", "frobnicate"} : \E bs \in {CurrentSession} :
           Through(bs, word, None,
                   CASE word = "" -> <<>>
                     [] word = "help" -> <<"Commands:">>
                     [] OTHER -> <<"Unknown command">>,
                   "")

\* fen <text>: one of the texts above, or the record of the current position.
CmdFen ==
    /\ pc = "input"
    /\ \E t \in FenInputs \cup {fen(board)} : \E bs \in {CurrentSession} : \E r \in {load_fen(bs, t)} :
           IF r.exc # ""
           THEN Through(r.bs, "fen", t, <<"Invalid FEN">>, "")
           ELSE Ran(r.bs, conversation_history, "fen", t, <<"Position loaded.">>, "",
                    [turn |-> turn(r.bs)])

\* board
CmdBoard ==
    /\ pc = "input"
    /\ \E bs \in {CurrentSession} :
           Ran(bs, conversation_history, "board", None, <<"FEN">>, "",
               [fen |-> fen(bs.board), turn |-> turn(bs)])

\* legal
CmdLegal ==
    /\ pc = "input"
    /\ \E bs \in {CurrentSession} :
           Ran(bs, conversation_history, "legal", None, <<"legal">>, "",
               [legal |-> get_legal_moves_san(bs)])

\* play <text>
CmdPlay ==
    /\ pc = "input"
    /\ \E t \in MoveTexts : \E bs \in {CurrentSession} :
       \E v \in {validate_and_parse_move(bs, t)} :
           IF v.exc # "" THEN Through(v.bs, "play", t, <<>>, v.exc)
           ELSE IF Falsy(v.ret) THEN Through(v.bs, "play", t, <<"Invalid or illegal move">>, "")
           ELSE /\ Len(move_history) < MaxPlies
                /\ \E r \in {push_move(v.bs, v.ret)} :
                      Ran(r.bs, conversation_history, "play", t,
                          IF r.exc = "" THEN <<"Played">> ELSE <<>>, r.exc,
                          [san |-> san(bs.board, v.ret)])

\* undo
CmdUndo ==
    /\ pc = "input"
    /\ \E bs \in {CurrentSession} : \E r \in {undo_move(bs)} :
           Ran(r.bs, conversation_history, "undo", None,
               IF r.exc # "" THEN <<>>
               ELSE IF r.ret # None THEN <<"Undone">>
               ELSE <<"Nothing to undo.">>,
               r.exc, r.ret)

\* ask <text>
CmdAsk ==
    /\ pc = "input"
    /\ \E arg \in {"", "why"} : \E bs \in {CurrentSession} :
           IF arg = ""
           THEN Through(bs, "ask", arg, <<"Usage: ask <your question>">>, "")
           ELSE /\ Len(conversation_history) < 2 * MaxExchanges
                /\ \E outcomes \in CoachOutcomes :
                   \E sent \in {Send(conversation_history, "question", outcomes)} :
                       Told(bs, "ask", arg, <<>>, sent, None)

\* What engine.analyze_position(b) can return or raise, over the answers of
\* the engine.
Analyses(b) ==
    {IF reply.exc # "" THEN Result(None, <<>>, reply.exc)
     ELSE analyze_position(b, reply.lines) : reply \in EngineReplies(b)}

\* What engine.evaluate_move(b, move) can return or raise, over the answers
\* of the engine.
Evaluations(b, move) ==
    {IF ev.exc # "" THEN Result(None, None, ev.exc)
     ELSE Result(None, evaluate_move(b, move, ev.score), "") : ev \in EvalReplies}

\* analyze
CmdAnalyze ==
    /\ pc = "input"
    /\ Len(conversation_history) < 2 * MaxExchanges
    /\ \E bs \in {CurrentSession} : \E top \in Analyses(bs.board) :
           IF top.exc # "" THEN Through(bs, "analyze", None, <<"Analyzing position...">>, top.exc)
           ELSE IF ExtractHeuristicsRaises(bs.board)
           THEN Through(bs, "analyze", None, <<"Analyzing position...">>, "TypeError")
           ELSE \E outcomes \in CoachOutcomes :
                \E sent \in {Send(conversation_history, "analysis", outcomes)} :
                    Told(bs, "analyze", None, <<"Analyzing position...">>, sent,
                         [top_moves |-> format_top_moves(top.ret)])

\* delta of the move command, from the best line and the user's move.
Delta(best, user_eval) == best.score_cp - (-user_eval.score_cp)

\* What the move command has in hand when it calls the coach.
Compared(move, top_moves, user_eval) ==
    [move |-> move, best |-> top_moves[1], user_eval |-> user_eval,
     delta |-> Delta(top_moves[1], user_eval),
     top_moves |-> format_top_moves(top_moves)]

\* The move command once the text is a move: the two engine calls, the
\* best line, the heuristics before and after the move, and the coach.
Evaluate(bs, t, move, tops) ==
    \E top \in tops :
        IF top.exc # "" THEN Through(bs, "move", t, <<"Evaluating">>, top.exc)
        ELSE \E ev \in Evaluations(bs.board, move) :
                IF ev.exc # "" THEN Through(bs, "move", t, <<"Evaluating">>, ev.exc)
                ELSE IF top.ret = <<>>
                THEN Ran(bs, conversation_history, "move", t, <<"Evaluating">>, "IndexError",
                         [top_moves |-> top.ret])
                ELSE IF \/ ExtractHeuristicsRaises(bs.board)
                        \/ ExtractHeuristicsRaises(push(bs.board, move))
                THEN Through(bs, "move", t, <<"Evaluating">>, "TypeError")
                ELSE \E outcomes \in CoachOutcomes :
                     \E sent \in {Send(conversation_history, "comparison", outcomes)} :
                         Told(bs, "move", t, <<"Evaluating">>, sent,
                              Compared(move, top.ret, ev.ret))

\* move <text>
CmdMove ==
    /\ pc = "input"
    /\ \E bs \in {CurrentSession} :
       \E tops \in {Analyses(bs.board)} : \E legal \in {get_legal_moves_san(bs)} :
       \E t \in MoveTexts : \E v \in {validate_and_parse_move(bs, t)} :
           IF v.exc # "" THEN Through(v.bs, "move", t, <<>>, v.exc)
           ELSE IF Falsy(v.ret)
           THEN Ran(v.bs, conversation_history, "move", t,
                    <<"Invalid or illegal move", "Legal moves">>, "", [legal |-> legal])
           ELSE /\ Len(conversation_history) < 2 * MaxExchanges
                /\ Evaluate(v.bs, t, v.ret, tops)

\* finally: engine.stop(), then the farewell.
Finally ==
    /\ pc = "finally"
    /\ engine' = stop(engine)
    /\ pc' = "done"
    /\ last' = [last EXCEPT !.out = Append(@, "Goodbye!")]
    /\ UNCHANGED <<board, initial_fen, move_history, conversation_history, info, trail>>

Next ==
    \/ Start
    \/ NextInput
    \/ Leave
    \/ CmdOther
    \/ CmdFen
    \/ CmdBoard
    \/ CmdLegal
    \/ CmdAnalyze
    \/ CmdMove
    \/ CmdPlay
    \/ CmdUndo
    \/ CmdAsk
    \/ Finally

Spec == Init /\ [][Next]_vars

\* finally runs once control is there: nothing in main() can hold it back.
FairSpec == Spec /\ WF_vars(Finally)

(***************************************************************************)
(* Properties of the command loop.                                         *)
(***************************************************************************)
\* C3: undo_move() on a session whose move_history is empty (no move applied
\* since construction or the last load_fen) returns None and raises nothing,
\* and leaves the board, initial_fen and move_history as they were; the undo
\* command then prints 'Nothing to undo.' and the loop goes on to its next
\* turn.
C3_UndoOnEmptyIsReported ==
    [][(pc = "input" /\ last'.op = "undo" /\ move_history = <<>>) =>
          /\ undo_move(CurrentSession) = Result(CurrentSession, None, "")
          /\ last'.out = <<"Nothing to undo.">>
          /\ last'.exc = ""
          /\ UNCHANGED <<board, initial_fen, move_history>>
          /\ pc' = "continue"]_vars

\* undo was typed right after a position had been loaded.
C3_Witness ==
    /\ last.op = "undo" /\ last.out = <<"Nothing to undo.">>
    /\ pc = "continue"
    /\ initial_fen = FenA /\ move_history = <<>> /\ board = BoardFromFen(FenA)

\* C8: the delta the move command hands to the coach is the best line's
\* score minus the score of the user's move, both in the one orientation
\* analyze_position and evaluate_move use; when the user's move is the best
\* line's move and the two scores are equal, the delta is 0.
C8_DeltaIsDirectDifference ==
    (last.op = "move" /\ "delta" \in DOMAIN last.data) =>
        /\ last.data.delta = last.data.best.score_cp - last.data.user_eval.score_cp
        /\ (last.data.best.move = last.data.move
               /\ last.data.best.score_cp = last.data.user_eval.score_cp) =>
                 last.data.delta = 0

\* C9: the loop is left only through finally, which is entered only with a
\* started engine; once there, engine.stop() is called and the program ends
\* with the engine stopped, whether the loop ended by quit, by the end of the
\* input, or by an exception of a command.
C9_StartedEngineIsStopped ==
    /\ [][(pc = "input" /\ pc' \notin {"input", "continue"}) => pc' = "finally"]_vars
    /\ [](pc = "finally" => engine = "running")
    /\ [](pc = "done" => engine = "stopped")
    /\ (pc = "finally") ~> (pc = "done" /\ engine = "stopped")

\* The engine raised during the analysis of a move command, and the program
\* ended with the engine stopped.
C9_Witness ==
    /\ pc = "done" /\ engine = "stopped"
    /\ last.op = "move" /\ last.exc = "EngineError"

\* The legal moves a text names, in algebraic or in coordinate notation.
MovesNamed(b, text) ==
    CASE text.kind = "san" ->
           NamedBy(b, text) \cup
           {m \in {Move(square(f, r), text.to_square, text.promotion) :
                      f \in text.from_file, r \in text.from_rank} :
               text.plain /\ text.piece = "" /\ is_legal(b, m)}
      [] text.kind = "castle" ->
           {m \in {Move(k, square(IF text.a_side THEN 2 ELSE 6, square_rank(k)), "") : k \in {4, 60}} :
               is_castling(b, m) /\ is_legal(b, m)}
      [] OTHER -> {}

\* C10: a text set_fen refuses given to the fen command, and a text that
\* names no legal move or more than one given to the move or the play
\* command, is answered with a message ('Invalid FEN', 'Invalid or illegal
\* move'), raises nothing, leaves the board, initial_fen and move_history as
\* they were, and the loop goes on to its next turn.
C10_InputErrorsChangeNothing ==
    [][(/\ pc = "input"
        /\ \/ last'.op = "fen" /\ FenRaises(last'.arg)
           \/ last'.op \in {"move", "play"} /\ Cardinality(MovesNamed(board, last'.arg)) # 1) =>
          /\ last'.out # <<>>
          /\ last'.out[1] = (IF last'.op = "fen" THEN "Invalid FEN" ELSE "Invalid or illegal move")
          /\ last'.exc = ""
          /\ UNCHANGED <<board, initial_fen, move_history>>
          /\ pc' = "continue"]_vars

\* A text with seven rows was given to the fen command after a move had been
\* played.
C10_Witness ==
    /\ last.op = "fen" /\ FenRaises(last.arg) /\ last.arg # EmptyFenText
    /\ last.out = <<"Invalid FEN">>
    /\ pc = "continue"
    /\ move_history # <<>>

\* C11: when the engine answers an analysis request with no lines, the
\* analyze command and the move command go on with the empty list of lines:
\* no exception passes on its account (none but one the coach raises), and
\* the loop goes on to its next turn unless the coach raised.
C11_NoLinesIsHandled ==
    (last.op \in {"analyze", "move"} /\ "top_moves" \in DOMAIN last.data /\ last.data.top_moves = <<>>) =>
        /\ last.exc \in {"", "Exception"}
        /\ last.exc = "" => pc \in {"continue", "input"}

\* C20: in the command loop the move, analyze, board, legal and ask commands
\* leave the board, initial_fen and move_history as they were, whatever the
\* engine and the coach answer; a step that changes the board or
\* move_history is a fen command that loaded its record, a play command
\* that played its move, or an undo command that took a move back; and
\* validate_and_parse_move returns the session it was given.
C20_OnlyFenPlayUndoChange ==
    [][/\ last'.op \in {"move", "analyze", "board", "legal", "ask"} =>
              UNCHANGED <<board, initial_fen, move_history>>
       /\ (board' # board \/ move_history' # move_history) =>
              \/ last'.op = "fen" /\ last'.out = <<"Position loaded.">>
              \/ last'.op = "play" /\ last'.out = <<"Played">>
              \/ last'.op = "undo" /\ last'.out = <<"Undone">>
       /\ (pc = "input" /\ last'.op \in {"move", "play"}) =>
              \E bs \in {CurrentSession} : validate_and_parse_move(bs, last'.arg).bs = bs]_vars

\* A move was compared with the engine's choice after another had been
\* played: analysis, evaluation, both heuristic reports and the coach ran.
C20_Witness ==
    /\ last.op = "move"
    /\ last.exc = ""
    /\ "delta" \in DOMAIN last.data
    /\ move_history # <<>>
    /\ Len(board.move_stack) = Len(move_history)
    /\ pc = "continue"

\* C15: when the fen command is given the record board.fen() emits for the
\* current position, the record is accepted, and the record emitted after
\* the load is the same in all six parts: placement, side to move, castling
\* flags, en-passant field, halfmove and fullmove counters; the board holds
\* the same placement, side to move, rights and counters as before.
C15_RecordRoundTrips ==
    [][(pc = "input" /\ last'.op = "fen" /\ last'.arg = fen(board)) =>
          /\ last'.exc = ""
          /\ last'.out = <<"Position loaded.">>
          /\ fen(board') = last'.arg
          /\ initial_fen' = last'.arg
          /\ board'.pieces = board.pieces
          /\ board'.turn = board.turn
          /\ clean_castling_rights(board') = clean_castling_rights(board)
          /\ board'.halfmove_clock = board.halfmove_clock
          /\ board'.fullmove_number = board.fullmove_number]_vars

\* The record of the position after 1. e4 was loaded and is emitted again;
\* no pawn can capture on e3 and the en-passant field is "-".
C15_Witness ==
    /\ last.op = "fen"
    /\ last.exc = ""
    /\ last.arg = fen(board)
    /\ last.arg \notin GoodFens
    /\ last.arg.turn = "b"
    /\ last.arg.fullmove = 1
    /\ last.arg.ep = "-"
    /\ board.pieces[28] = "P"
    /\ board.move_stack = <<>>

(***************************************************************************)
(* extract_heuristics on many positions.  A session is constructed from a  *)
(* position record, the session's operations run in any order, and         *)
(* extract_heuristics is called on the board at any point between them.    *)
(***************************************************************************)
\* 6k1/8/8/8/8/P7/6PP/7K w - - 0 1 with Black's king in the other corner:
\* k7/p7/7p/8/8/P7/6PP/7K w - - 0 30.  Both kings stand on edge files behind
\* their pawns, and each side has a pawn on the far edge.
FenCorner ==
    Fen(<< <<"k", "7">>, <<"p", "7">>, <<"7", "p">>, <<"8">>,
           <<"8">>, <<"P", "7">>, <<"6", "P", "P">>, <<"7", "K">> >>,
        "w", {}, "-", 0, 30)

\* The records given: the start position and three others, each with one
\* square changed.  The squares are b1, g1, b2, h2, a3, h3, e4, d5, f6, h6, a7
\* and b8.
HeurRecords ==
    {fen([b EXCEPT !.pieces[sq] = sym]) :
        b \in {BoardFromFen(f) : f \in {STARTING_FEN, FenA, FenB, FenCorner}},
        sq \in {1, 6, 9, 15, 16, 23, 28, 35, 45, 47, 48, 57},
        sym \in {Empty, "P", "p", "R", "N", "q"}}

\* The moves played between calls: d7d5 and h1g1.
HeurMoves == {Move(51, 35, ""), Move(7, 6, "")}

\* What identifies a position: placement, side to move, castling rights and
\* en-passant square.
Position(b) ==
    [pieces |-> b.pieces, turn |-> b.turn, castling_rights |-> b.castling_rights,
     ep_square |-> b.ep_square]

HeurInit ==
    /\ \E f \in HeurRecords : \E bs \in {BoardStateInit(f)} :
          board = bs.board /\ initial_fen = bs.initial_fen /\ move_history = bs.move_history
    /\ pc = "heuristics"
    /\ engine = "none"
    /\ conversation_history = <<>>
    /\ info = <<>>
    /\ last = Call("init", None, None, "")
    /\ trail = Call("init", None, None, "")

HeurSet(r) ==
    /\ board' = r.bs.board
    /\ initial_fen' = r.bs.initial_fen
    /\ move_history' = r.bs.move_history
    /\ UNCHANGED <<pc, engine, conversation_history, info, last, trail>>

\* extract_heuristics(board_state.board); the call before it is remembered.
HeurExtract ==
    /\ \E r \in {extract_heuristics(board)} :
          last' = Call("extract_heuristics",
                       [position |-> Position(board), plies |-> Len(board.move_stack)],
                       r.ret, r.exc)
    /\ trail' = last
    /\ UNCHANGED <<board, initial_fen, move_history, pc, engine, conversation_history, info>>

\* A legal move is played.
HeurPushMove ==
    /\ Len(move_history) < MaxPlies
    /\ \E m \in HeurMoves :
          /\ is_legal(board, m)
          /\ \E bs \in {CurrentSession} : \E r \in {push_move(bs, m)} : HeurSet(r)

\* The last move is taken back.
HeurUndoMove ==
    \E bs \in {CurrentSession} : \E r \in {undo_move(bs)} : HeurSet(r)

\* The record of the current position is loaded.
HeurLoadFen ==
    \E bs \in {CurrentSession} : \E t \in {fen(board)} : \E r \in {load_fen(bs, t)} : HeurSet(r)

HeurNext == HeurExtract \/ HeurPushMove \/ HeurUndoMove \/ HeurLoadFen

HeurSpec == HeurInit /\ [][HeurNext]_vars

(***************************************************************************)
(* Properties of the heuristics.                                           *)
(***************************************************************************)

\* A call of extract_heuristics that returned a report.
Reported == last.op = "extract_heuristics" /\ last.exc = ""

\* C12: in the tactics list of a returned report, every piece but a king
\* that stands attacked by an opposing piece and by no piece of its own
\* colour has a HANGING entry with its symbol and square; a piece that is
\* defended, or not attacked, has none; no entry names a king.
C12_HangingPiecesListed ==
    Reported =>
        \E pos \in {last.arg.position} : \E motifs \in {last.ret.tactics} :
            /\ \A sq \in SQUARES :
                  (pos.pieces[sq] # Empty /\ piece_type_at(pos, sq) # "k") =>
                      \E own \in {IsColor(pos, sq, WHITE)} :
                          (\E i \in DOMAIN motifs :
                               motifs[i] = Motif("HANGING", pos.pieces[sq], square_name(sq)))
                          <=> (attackers(pos, ~own, sq) # {} /\ attackers(pos, own, sq) = {})
            /\ \A i \in DOMAIN motifs :
                  motifs[i].motif = "HANGING" =>
                      /\ motifs[i].piece \notin {"K", "k"}
                      /\ \E sq \in SQUARES :
                            /\ square_name(sq) = motifs[i].square
                            /\ pos.pieces[sq] = motifs[i].piece

\* A report lists a hanging piece while another piece of the position is
\* attacked and defended, and a king stands attacked.
C12_Witness ==
    /\ Reported
    /\ \E i \in DOMAIN last.ret.tactics : last.ret.tactics[i].motif = "HANGING"
    /\ \E i \in DOMAIN last.ret.tactics : last.ret.tactics[i].motif = "CHECK"
    /\ \E pos \in {last.arg.position} : \E sq \in SQUARES :
          /\ pos.pieces[sq] # Empty
          /\ piece_type_at(pos, sq) # "k"
          /\ attackers(pos, WHITE, sq) # {}
          /\ attackers(pos, BLACK, sq) # {}

\* The number of squares of a placement that hold a symbol.
CountOf(ps, sym) == Cardinality({sq \in SQUARES : ps[sq] = sym})

\* A position with the colour of every piece changed.
ColoursSwapped(pos) ==
    [pos EXCEPT !.pieces = [sq \in SQUARES |->
        IF pos.pieces[sq] = Empty THEN Empty
        ELSE Symbol(TypeOfSymbol(pos.pieces[sq]), ~IsColor(pos, sq, WHITE))]]

\* C13: in a returned report each side's material is its pawns plus three
\* times its knights and bishops, five times its rooks and nine times its
\* queens, kings weighing nothing, and balance is white minus black; the
\* balance is 0 when both sides have the same pieces, and the position with
\* all colours swapped has the opposite balance.
C13_MaterialIsWeightedCount ==
    Reported =>
        \E pos \in {last.arg.position} : \E m \in {last.ret.material} :
            /\ m.white = CountOf(pos.pieces, "P") + 3 * CountOf(pos.pieces, "N")
                         + 3 * CountOf(pos.pieces, "B") + 5 * CountOf(pos.pieces, "R")
                         + 9 * CountOf(pos.pieces, "Q") + 0 * CountOf(pos.pieces, "K")
            /\ m.black = CountOf(pos.pieces, "p") + 3 * CountOf(pos.pieces, "n")
                         + 3 * CountOf(pos.pieces, "b") + 5 * CountOf(pos.pieces, "r")
                         + 9 * CountOf(pos.pieces, "q") + 0 * CountOf(pos.pieces, "k")
            /\ m.balance = m.white - m.black
            /\ (\A pt \in PIECE_TYPES :
                    CountOf(pos.pieces, Symbol(pt, WHITE)) = CountOf(pos.pieces, Symbol(pt, BLACK)))
                   => m.balance = 0
            /\ \E swapped \in {ColoursSwapped(pos)} :
                   _material_balance(swapped).balance = -m.balance

\* A report on a position in which the sides have different pieces and
\* Black has the greater material.
C13_Witness ==
    /\ Reported
    /\ last.ret.material.balance < 0
    /\ last.ret.material.white > 0
    /\ CountOf(last.arg.position.pieces, "q") > 0

\* A report on the standard start position.
C13_StartReported ==
    Reported /\ last.arg.position.pieces = StartBoard.pieces /\ last.ret.material.balance = 0

ShieldSquares(pos, color) ==
    {sq \in SQUARES :
        \E k \in pieces(pos, "k", color) :
            /\ k = SetMax(pieces(pos, "k", color))
            /\ square_rank(sq) = square_rank(k) + (IF color = WHITE THEN 1 ELSE -1)
            /\ Abs(square_file(sq) - square_file(k)) <= 1
            /\ pos.pieces[sq] = Symbol("p", color)}

\* C16: in a returned report, pawn_shield of each side is the number of its
\* pawns on the squares one rank in front of its king, on the king's file
\* or a file next to it; a pawn elsewhere, one on the opposite edge file
\* included, is not counted, and a king on the a- or h-file has two such
\* squares.
C16_ShieldIsInFrontOfKing ==
    Reported =>
        \E pos \in {last.arg.position} :
            /\ last.ret.king_safety.white.pawn_shield = Cardinality(ShieldSquares(pos, WHITE))
            /\ last.ret.king_safety.black.pawn_shield = Cardinality(ShieldSquares(pos, BLACK))

\* C17: in a returned report, a side's development list holds the label of
\* a starting square exactly when a minor piece of that side and of the
\* label's type stands on the square: a knight on b1, g1, b8, g8, a bishop
\* on c1, f1, c8, f8.
C17_OnlyMinorPiecesListed ==
    Reported =>
        \E pos \in {last.arg.position} :
            \A color \in {WHITE, BLACK} :
                \E listed \in {IF color = WHITE THEN last.ret.development.white
                               ELSE last.ret.development.black} :
                    \A i \in 1 .. 4 :
                        \E p \in {start_positions(color)[i]} :
                            (\E j \in DOMAIN listed : listed[j] = p.label)
                            <=> pos.pieces[p.sq] = Symbol(IF i <= 2 THEN "n" ELSE "b", color)

\* The number of a colour's pawns on a file (0 for a, 7 for h).
PawnsOnFile(pos, color, f) ==
    Cardinality({sq \in SQUARES : square_file(sq) = f /\ pos.pieces[sq] = Symbol("p", color)})

\* C19: in a returned report and for each side, 'doubled pawns' is listed
\* for a file exactly when the side has more than one pawn on it, and
\* 'isolated pawn' exactly when the side has a pawn on the file and none on
\* the files next to it that exist; no issue is listed twice.
C19_PawnIssuesPerFile ==
    Reported =>
        \E pos \in {last.arg.position} :
            \A color \in {WHITE, BLACK} :
                \E issues \in {IF color = WHITE THEN last.ret.pawn_structure.white
                               ELSE last.ret.pawn_structure.black} :
                    /\ \A f \in 0 .. 7 :
                          /\ (\E i \in DOMAIN issues : issues[i] = Issue("doubled pawns", f))
                             <=> PawnsOnFile(pos, color, f) > 1
                          /\ (\E i \in DOMAIN issues : issues[i] = Issue("isolated pawn", f))
                             <=> /\ PawnsOnFile(pos, color, f) >= 1
                                 /\ (f > 0 => PawnsOnFile(pos, color, f - 1) = 0)
                                 /\ (f < 7 => PawnsOnFile(pos, color, f + 1) = 0)
                    /\ \A i, j \in DOMAIN issues : issues[i] = issues[j] => i = j
                    /\ \A i \in DOMAIN issues :
                          /\ issues[i].issue \in {"doubled pawns", "isolated pawn"}
                          /\ issues[i].file \in {FILE_NAMES[f + 1] : f \in 0 .. 7}

\* A report in which White has doubled pawns on the h-file, an isolated
\* pawn, and pawns on two neighbouring files.
C19_Witness ==
    /\ Reported
    /\ \E i, j \in DOMAIN last.ret.pawn_structure.white :
          /\ last.ret.pawn_structure.white[i] = Issue("doubled pawns", 7)
          /\ last.ret.pawn_structure.white[j].issue = "isolated pawn"
    /\ \E f \in 0 .. 6 :
          /\ PawnsOnFile(last.arg.position, WHITE, f) > 0
          /\ PawnsOnFile(last.arg.position, WHITE, f + 1) > 0

=============================================================================
